---- MODULE Spec2Model ----
(***************************************************************************)
(* War Room deliberation orchestrator (server.js, mcp-server.js).          *)
(*                                                                         *)
(* The server is a single Node.js process: a handler or a continuation of  *)
(* an async function runs without interruption until its next real wait    *)
(* (a model call, a search call, a timer).  Every action below is one such  *)
(* uninterrupted run.                                                       *)
(***************************************************************************)
EXTENDS Integers, Sequences, FiniteSets, TLC

\* ------------------------------------------------------------------ bounds
\* events explored per run: a model call that throws, a turn whose model
\* output carries a marker line, a human-message command
MaxEvents == 1
\* polls of one escalation wait explored by Spec (SpecWait explores them all)
MaxPolls == 2
\* largest clock value explored
MaxClock == 1
\* turns of each session that are followed when two sessions run together
MaxTurnsTwo == 2
\* turns of each session that are followed next to a call of the MCP client
MaxTurnsMcp == 1

\* ------------------------------------------------------- program constants
WaitCeiling == 300000
PollInterval == 2000
MaxSearchQueries == 5
MinQueryLength == 2

\* ---------------------------------------------------------- static rosters
AGENTS ==
  << "process-architect", "systems-synthesizer", "divergent-generator",
     "convergent-evaluator", "red-teamer", "quantitative-expert",
     "qualitative-expert", "research-scout" >>

AgentIds == { AGENTS[i] : i \in 1..Len(AGENTS) }

PHASES ==
  << [id |-> "framing", name |-> "Problem Framing",
      agents |-> << "process-architect", "research-scout", "systems-synthesizer" >>],
     [id |-> "divergence", name |-> "Divergence",
      agents |-> << "divergent-generator", "systems-synthesizer",
                    "quantitative-expert", "qualitative-expert" >>],
     [id |-> "convergence", name |-> "Convergence",
      agents |-> << "convergent-evaluator", "quantitative-expert",
                    "qualitative-expert", "research-scout" >>],
     [id |-> "red-team", name |-> "Red Team",
      agents |-> << "red-teamer", "convergent-evaluator", "process-architect" >>],
     [id |-> "synthesis", name |-> "Synthesis",
      agents |-> << "process-architect" >>] >>

\* phase indices are 0-based in the program
PhaseName(p) == PHASES[p + 1].name
PhaseAgents(p) == PHASES[p + 1].agents
NumPhases == Len(PHASES)

\* the session ids genId hands out, in the order it hands them out, and the
\* ids a client can name in a command
SessionOrder == << "s1", "s2" >>
SessionIds == { SessionOrder[i] : i \in 1..Len(SessionOrder) }

\* ------------------------------------------------------------ model output
\* A model output is a sequence of lines; a line either is plain text or
\* carries one of the two markers followed by the rest of the line.
TextLine == [marker |-> "none", rest |-> "analysis"]
NeedLine(q) == [marker |-> "NEED_HUMAN_INPUT", rest |-> q]
SearchLine(q) == [marker |-> "SEARCH", rest |-> q]

Plain == << TextLine >>
Ask1 == << TextLine, NeedLine("q1") >>
Ask2 == << NeedLine("q1"), NeedLine("q2") >>
Srch1 == << SearchLine("abc"), TextLine >>

\* outputs with a marker line that carries no question
Bare1 == << NeedLine(""), TextLine >>
Bare2 == << NeedLine(""), NeedLine("q2") >>
Bare3 == << TextLine, NeedLine("") >>

\* outputs with six queries, and with a query too short and one in brackets
Srch6 ==
  << SearchLine("alpha"), SearchLine("bravo"), SearchLine("delta"),
     SearchLine("gamma"), SearchLine("omega"), SearchLine("sigma") >>
Srch2 == << SearchLine("ab"), TextLine, SearchLine("[abc]") >>

MarkedOutputs == { Ask1, Ask2, Srch1 }
Answers == {"a1"}
Contents == { "hello", " " }

\* length of the strings the model uses
StrLen(str) ==
  CASE str = "abc" -> 3
    [] str = "ab" -> 2
    [] str = " " -> 1
    [] OTHER -> 5

\* String.prototype.trim on the strings the model uses
Trim(str) == IF str = " " THEN "" ELSE str

\* ------------------------------------------------------------------- state
VARIABLES
  created,          \* ids genId has handed out to createSession
  activeSessions,   \* keys of the activeSessions map
  session,          \* the in-memory session objects, by id
  dbSessions,       \* table sessions: one row per id
  dbMessages,       \* table messages, by session_id, in insertion order
  dbEscalations,    \* table escalations, in insertion order
  dbHumanMessages,  \* table human_messages, by session_id
  sched,            \* where each runDeliberation call is suspended
  followUps,        \* runFollowUp calls awaiting their model call, by session
  now,              \* Date.now()
  nextEsc,          \* number of escalation ids handed out
  tavilyKey,        \* whether TAVILY_API_KEY is set
  wsClient,         \* the wsCmd call of the stdio MCP client, if one is open
  emitted,          \* what the last step passed to broadcast, in order
  reply,            \* what the last step sent to the caller alone
  turnLog,          \* effects of the current phase-loop turn, in order
  phaseLog,         \* phase indices announced by phase-change, in order
  turnsRun,         \* <<phase, agent>> of every runAgentTurn call, in order
  nFail, nMarked, nHuman

vars ==
  << created, activeSessions, session, dbSessions, dbMessages, dbEscalations,
     dbHumanMessages, sched, followUps, now, nextEsc, tavilyKey, wsClient,
     emitted, reply, turnLog, phaseLog, turnsRun, nFail, nMarked, nHuman >>

\* ------------------------------------------------------------ record shapes
NoSession ==
  [phase |-> 0, active |-> FALSE, messages |-> << >>, humanMessages |-> << >>,
   escalations |-> << >>, agentStates |-> [a \in AgentIds |-> "idle"]]

NoRow == [exists |-> FALSE, phase |-> 0, active |-> FALSE]

NotRunning ==
  [pc |-> "none", phaseIdx |-> 0, agentIdx |-> 0, waited |-> 0,
   first |-> << >>, queries |-> << >>, results |-> << >>]

NoReply == [type |-> "none"]

\* no wsCmd call is open
NoCommand == [state |-> "idle"]

\* what broadcast is given; fields a notification lacks hold "-" or << >>
Note(type, s, agent, state, text, data) ==
  [type |-> type, sessionId |-> s, agentId |-> agent, state |-> state,
   text |-> text, data |-> data]

AgentStateNote(s, a, st) == Note("agent-state", s, a, st, "-", << >>)
ErrorNote(s, a) == Note("error", s, a, "-", "-", << >>)
\* the two steps of a turn that are not notifications
MemAppend(s, a) == Note("(messages.push)", s, a, "-", "-", << >>)
DbInsert(s, a) == Note("(insertMessage)", s, a, "-", "-", << >>)

\* Array.prototype.filter(...).length, given each element's verdict
Count(flags) == Cardinality({ i \in 1..Len(flags) : flags[i] })

\* ----------------------------------------------------------- pure functions
\* q.replace(/^\[|\]$/g, ''): a leading [ and a trailing ] are dropped
StripBrackets(str) == IF str = "[abc]" THEN "abc" ELSE str

\* a slice that keeps everything
AllOf(seq, n) == seq

FirstN(seq, n) == SubSeq(seq, 1, IF Len(seq) < n THEN Len(seq) ELSE n)

\* the queries of the SEARCH lines that are longer than two characters,
\* at most five of them
extractSearchQueries(text) ==
  LET Query(l) == StripBrackets(Trim(l.rest))
      IsQuery(l) == l.marker = "SEARCH" /\ StrLen(Query(l)) > MinQueryLength
      kept == SelectSeq(text, IsQuery)
  IN FirstN([i \in 1..Len(kept) |-> Query(kept[i])], MaxSearchQueries)

\* a line as the text it is
LineText(l) ==
  CASE l.marker = "none" -> l.rest
    [] l.marker = "NEED_HUMAN_INPUT" /\ l.rest = "q1" -> "NEED_HUMAN_INPUT: q1"
    [] l.marker = "NEED_HUMAN_INPUT" /\ l.rest = "q2" -> "NEED_HUMAN_INPUT: q2"
    [] l.marker = "NEED_HUMAN_INPUT" -> "NEED_HUMAN_INPUT:"
    [] l.marker = "SEARCH" /\ l.rest = "abc" -> "SEARCH: abc"
    [] OTHER -> "SEARCH:"

\* the matches of /NEED_HUMAN_INPUT:\s*(.+?)(?:\n|$)/g from line i on, each
\* trimmed: \s* runs over the end of a marker line that carries nothing, and
\* the match is then the whole of the next line, which is passed over; a
\* marker that ends the text with nothing after it matches nothing
RECURSIVE MatchesFrom(_, _)
MatchesFrom(text, i) ==
  IF i > Len(text) THEN << >>
  ELSE IF text[i].marker # "NEED_HUMAN_INPUT" THEN MatchesFrom(text, i + 1)
  ELSE IF text[i].rest # ""
       THEN << Trim(text[i].rest) >> \o MatchesFrom(text, i + 1)
  ELSE IF i < Len(text)
       THEN << Trim(LineText(text[i + 1])) >> \o MatchesFrom(text, i + 2)
  ELSE << >>

\* the questions a turn's output asks, in order
extractEscalations(text) == MatchesFrom(text, 1)

IsPending(e) == ~e.answered
PendingCount(sess) ==
  Count([i \in 1..Len(sess.escalations) |-> IsPending(sess.escalations[i])])

\* a phase test that lets every message pass
AnyPhase(m) == m.phase = m.phase

IsSynthesis(m) == m.phase = "Synthesis"

\* rows of table escalations that belong to session s
EscRowsOf(s) ==
  LET Mine(r) == r.session_id = s IN SelectSeq(dbEscalations, Mine)

\* stmts.updateSessionPhase / stmts.updateSessionActive: UPDATE ... WHERE id = ?
\* an UPDATE of the active flag that changes no row
updateMatchesNoRow(row, a) == row

updateSessionPhase(row, p) == IF row.exists THEN [row EXCEPT !.phase = p] ELSE row
updateSessionActive(row, a) == IF row.exists THEN [row EXCEPT !.active = a] ELSE row

\* ------------------------------------------------- the scheduler, threaded
\* What one uninterrupted run of session s's scheduler has done so far: the
\* session object, its row in table sessions, whether the registry holds it,
\* where the loop stands, and what was broadcast and logged.
World(s) ==
  [sess |-> session[s], row |-> dbSessions[s], reg |-> s \in activeSessions,
   sch |-> sched[s], out |-> << >>, tlog |-> turnLog[s],
   plog |-> phaseLog[s], truns |-> turnsRun[s]]

CurrentAgent(sch) == PhaseAgents(sch.phaseIdx)[sch.agentIdx + 1]

\* runAgentTurn up to its first await: the agent is marked thinking and the
\* model is called
StartTurn(W, s, p, i) ==
  LET a == PhaseAgents(p)[i + 1]
      n == AgentStateNote(s, a, "thinking")
  IN [W EXCEPT !.sess.agentStates[a] = "thinking",
               !.out = Append(@, n),
               !.tlog = << n >>,
               !.truns = Append(@, << p, a >>),
               !.sch = [NotRunning EXCEPT !.pc = "model1", !.phaseIdx = p,
                                          !.agentIdx = i]]

\* the head of the agent loop once session.active was seen true: wait on
\* pending escalations or start the turn
BeforeTurn(W, s, p, i) ==
  LET pending == PendingCount(W.sess)
  IN IF pending > 0
     THEN [W EXCEPT !.out = Append(@, Note("waiting-for-human", s, "-", "-",
                                           "-", << pending >>)),
                    !.sch = [NotRunning EXCEPT !.pc = "poll", !.phaseIdx = p,
                                               !.agentIdx = i]]
     ELSE StartTurn(W, s, p, i)

\* an end of the loop that announces completion before it marks the session
\* inactive and takes it out of the registry
FinishesInRegistry(W, s) ==
  [W EXCEPT !.out = Append(@, Note("deliberation-complete", s, "-", "-", "-",
                                   << Len(W.sess.messages), 0, 0 >>)),
            !.sch = [NotRunning EXCEPT !.pc = "done",
                                       !.phaseIdx = W.sch.phaseIdx,
                                       !.agentIdx = W.sch.agentIdx]]

\* the end of runDeliberation
FinishDeliberation(W, s) ==
  LET totalMsgs == Len(W.sess.messages)
      synthCount == Count([i \in 1..Len(dbMessages[s]) |->
                             IsSynthesis(dbMessages[s][i])])
      qaCount == Len(EscRowsOf(s))
  IN [W EXCEPT !.sess.active = FALSE,
               !.row = updateSessionActive(@, FALSE),
               !.reg = FALSE,
               !.out = Append(@, Note("deliberation-complete", s, "-", "-", "-",
                                      << totalMsgs, synthCount, qaCount >>)),
               !.sch = [NotRunning EXCEPT !.pc = "done",
                                          !.phaseIdx = W.sch.phaseIdx,
                                          !.agentIdx = W.sch.agentIdx]]

\* the head of the phase loop for phase index p
EnterPhase(W, s, p) ==
  IF p < NumPhases /\ W.sess.active
  THEN BeforeTurn([W EXCEPT !.sess.phase = p,
                            !.row = updateSessionPhase(@, p),
                            !.out = Append(@, Note("phase-change", s, "-", "-",
                                                   PhaseName(p), << p >>)),
                            !.plog = Append(@, p)],
                  s, p, 0)
  ELSE FinishDeliberation(W, s)

\* a loop that leaves a phase out after a turn
AfterTurnSkipsPhase(W, s) == EnterPhase(W, s, W.sch.phaseIdx + 2)

\* an agent loop that does not look at session.active
AfterTurnIgnoresStop(W, s) ==
  LET p == W.sch.phaseIdx
      i == W.sch.agentIdx
  IN IF i + 1 < Len(PhaseAgents(p))
     THEN BeforeTurn(W, s, p, i + 1)
     ELSE EnterPhase(W, s, p + 1)

\* the loop after runAgentTurn has returned
AfterTurn(W, s) ==
  LET p == W.sch.phaseIdx
      i == W.sch.agentIdx
  IN IF i + 1 < Len(PhaseAgents(p))
     THEN IF W.sess.active
          THEN BeforeTurn(W, s, p, i + 1)
          ELSE EnterPhase(W, s, p + 1)
     ELSE EnterPhase(W, s, p + 1)

\* a catch block that also ends the session
TurnFailedEndsSession(W, s) ==
  LET a == CurrentAgent(W.sch)
  IN [W EXCEPT !.sess.agentStates[a] = "idle",
               !.sess.active = FALSE,
               !.out = Append(Append(@, AgentStateNote(s, a, "idle")),
                              ErrorNote(s, a)),
               !.tlog = Append(Append(@, AgentStateNote(s, a, "idle")),
                               ErrorNote(s, a))]

\* a catch block that announces the agent idle and leaves its state as it was
TurnFailedStaysBusy(W, s) ==
  LET a == CurrentAgent(W.sch)
      idle == AgentStateNote(s, a, "idle")
      err == ErrorNote(s, a)
  IN [W EXCEPT !.out = Append(Append(@, idle), err),
               !.tlog = Append(Append(@, idle), err)]

\* the catch block of runAgentTurn
TurnFailed(W, s) ==
  LET a == CurrentAgent(W.sch)
      idle == AgentStateNote(s, a, "idle")
      err == ErrorNote(s, a)
  IN [W EXCEPT !.sess.agentStates[a] = "idle",
               !.out = Append(Append(@, idle), err),
               !.tlog = Append(Append(@, idle), err)]

\* the state after an uninterrupted run of session s's scheduler
Commit(W, s) ==
  /\ session' = [session EXCEPT ![s] = W.sess]
  /\ dbSessions' = [dbSessions EXCEPT ![s] = W.row]
  /\ activeSessions' = IF W.reg THEN activeSessions \cup {s}
                                ELSE activeSessions \ {s}
  /\ sched' = [sched EXCEPT ![s] = W.sch]
  /\ emitted' = W.out
  /\ turnLog' = [turnLog EXCEPT ![s] = W.tlog]
  /\ phaseLog' = [phaseLog EXCEPT ![s] = W.plog]
  /\ turnsRun' = [turnsRun EXCEPT ![s] = W.truns]

\* SQL NULL in a text column and in a timestamp column
Null == "NULL"
NullTime == -1

\* Date.now() where its value is stored: the clock has not gone back since
\* it was last read
DateNow == now' \in now..MaxClock

\* an INSERT with session_id s and no row of sessions to refer to
ForeignKeysOff(s) == TRUE

\* foreign_keys = ON and session_id REFERENCES sessions(id): an INSERT into
\* messages, escalations or human_messages goes through only when the row of
\* session s is there, and throws otherwise
ForeignKeyHolds(s) == dbSessions[s].exists

\* buildContext: what of the session goes into the prompt of agentId's turn:
\* the transcript, the human messages, the answered escalations the agent
\* raised and those the others raised
\* and, with finalSynthesis, the instructions for the final synthesis
LastPhase == NumPhases - 1

\* a test that takes every turn of the synthesis agent for the final one
AnyArchitectTurn(agentId, phase) == agentId = "process-architect"

\* if (phase === PHASES.length - 1 && agentId === 'process-architect')
IsFinalSynthesis(agentId, phase) ==
  phase = LastPhase /\ agentId = "process-architect"

\* a context that lists the agent's escalations answered or not
contextOfEveryQuestion(sess, agentId, phase) ==
  LET Own(e) == e.agentId = agentId
      Other(e) == e.answered /\ e.agentId # agentId
  IN [priorMessages |-> sess.messages,
      humanMessages |-> sess.humanMessages,
      answeredEscalations |-> SelectSeq(sess.escalations, Own),
      otherAnswers |-> SelectSeq(sess.escalations, Other),
      finalSynthesis |-> IsFinalSynthesis(agentId, phase)]

\* a context that leaves the human interjections out
contextWithoutInterjections(sess, agentId, phase) ==
  LET Own(e) == e.answered /\ e.agentId = agentId
      Other(e) == e.answered /\ e.agentId # agentId
  IN [priorMessages |-> sess.messages,
      humanMessages |-> << >>,
      answeredEscalations |-> SelectSeq(sess.escalations, Own),
      otherAnswers |-> SelectSeq(sess.escalations, Other),
      finalSynthesis |-> IsFinalSynthesis(agentId, phase)]

buildContext(sess, agentId, phase) ==
  LET Own(e) == e.answered /\ e.agentId = agentId
      Other(e) == e.answered /\ e.agentId # agentId
  IN [priorMessages |-> sess.messages,
      humanMessages |-> sess.humanMessages,
      answeredEscalations |-> SelectSeq(sess.escalations, Own),
      otherAnswers |-> SelectSeq(sess.escalations, Other),
      finalSynthesis |-> IsFinalSynthesis(agentId, phase)]

\* --------------------------------------------------------- runAgentTurn
IsNotification(n) == n.type \notin {"(messages.push)", "(insertMessage)"}

\* a turn that announces its message before persisting it
AnnouncesFirst(s, a, msgNote, escNotes) ==
  (<< msgNote, DbInsert(s, a) >> \o escNotes)
    \o << AgentStateNote(s, a, "idle") >>

\* what a turn does once its message is appended in memory, in order: the
\* message is persisted and announced, each escalation is announced, the
\* agent goes idle
AfterAppend(s, a, msgNote, escNotes) ==
  (<< DbInsert(s, a), msgNote >> \o escNotes)
    \o << AgentStateNote(s, a, "idle") >>

\* From "speaking" to the pause: the message is appended, persisted and
\* announced, its escalations are created, the agent goes idle.  When the
\* session's row is gone the INSERT violates the foreign key and throws: the
\* catch block runs and runAgentTurn returns at once.
Speak(s, text) ==
  LET W == World(s)
      a == CurrentAgent(sched[s])
      p == sched[s].phaseIdx
      speaking == AgentStateNote(s, a, "speaking")
      msg == [agentId |-> a, content |-> text, phase |-> PhaseName(p)]
      msgNote == Note("message", s, a, "-", PhaseName(p), << >>)
      W1 == [W EXCEPT !.sess.agentStates[a] = "speaking",
                      !.sess.messages = Append(@, msg),
                      !.out = Append(@, speaking),
                      !.tlog = Append(Append(@, speaking), MemAppend(s, a))]
      qs == extractEscalations(text)
      ids == [i \in 1..Len(qs) |-> nextEsc + i]
      escs == [i \in 1..Len(qs) |->
                 [id |-> ids[i], agentId |-> a, question |-> qs[i],
                  sessionId |-> s, answered |-> FALSE, answer |-> Null,
                  createdAt |-> now']]
      rows == [i \in 1..Len(qs) |->
                 [id |-> ids[i], session_id |-> s, agent_id |-> a,
                  question |-> qs[i], answer |-> Null, status |-> "pending",
                  created_at |-> now', answered_at |-> NullTime]]
      escNotes == [i \in 1..Len(qs) |->
                     Note("escalation", s, a, "-", qs[i], << ids[i] >>)]
      rest == AfterAppend(s, a, msgNote, escNotes)
      W2 == [W1 EXCEPT !.sess.escalations = @ \o escs,
                       !.sess.agentStates[a] = "idle",
                       !.out = @ \o SelectSeq(rest, IsNotification),
                       !.tlog = @ \o rest,
                       !.sch.pc = "pause"]
  IN IF ForeignKeyHolds(s)
     THEN /\ IF qs = << >> THEN now' = now ELSE DateNow
          /\ Commit(W2, s)
          /\ dbMessages' = [dbMessages EXCEPT ![s] = Append(@, msg)]
          /\ dbEscalations' = dbEscalations \o rows
          /\ nextEsc' = nextEsc + Len(qs)
     ELSE /\ Commit(AfterTurn(TurnFailed(W1, s), s), s)
          /\ UNCHANGED << dbMessages, dbEscalations, nextEsc, now >>

\* the research scout's first output holds queries: searches begin
BeginSearch(s, text) ==
  LET W == World(s)
      a == CurrentAgent(sched[s])
      qs == extractSearchQueries(text)
      searching == AgentStateNote(s, a, "searching")
      started == Note("search-started", s, a, "-", "-", << Len(qs) >>)
  IN /\ Commit([W EXCEPT !.sess.agentStates[a] = "searching",
                         !.out = << searching, started >>,
                         !.tlog = Append(Append(@, searching), started),
                         !.sch.pc = "search",
                         !.sch.first = text,
                         !.sch.queries = qs], s)
     /\ UNCHANGED << dbMessages, dbEscalations, nextEsc, now >>

\* a scout that searches whether or not the search key is set
SearchesWithoutKey(s, text) ==
  /\ sched[s].pc = "model1"
  /\ CurrentAgent(sched[s]) = "research-scout"
  /\ Len(extractSearchQueries(text)) > 0

\* a search by whichever agent writes SEARCH lines
EveryAgentSearches(s, text) ==
  /\ sched[s].pc = "model1"
  /\ tavilyKey
  /\ Len(extractSearchQueries(text)) > 0

UsesSearch(s, text) ==
  /\ sched[s].pc = "model1"
  /\ CurrentAgent(sched[s]) = "research-scout"
  /\ tavilyKey
  /\ Len(extractSearchQueries(text)) > 0

\* a model call of a phase-loop turn returns text
ModelAnswers(s, text) ==
  /\ sched[s].pc \in {"model1", "model2"}
  /\ IF UsesSearch(s, text) THEN BeginSearch(s, text) ELSE Speak(s, text)
  /\ nMarked' = IF text = Plain \/ sched[s].pc = "model2" THEN nMarked
                ELSE nMarked + 1
  /\ reply' = NoReply
  /\ UNCHANGED << created, dbHumanMessages, followUps, tavilyKey, wsClient, nFail,
                  nHuman >>

\* a model call of a phase-loop turn throws
ModelFails(s) ==
  /\ sched[s].pc \in {"model1", "model2"}
  /\ Commit(AfterTurn(TurnFailed(World(s), s), s), s)
  /\ nFail' = nFail + 1
  /\ reply' = NoReply
  /\ UNCHANGED << created, dbMessages, dbEscalations, dbHumanMessages,
                  followUps, now, nextEsc, tavilyKey, wsClient, nMarked, nHuman >>

\* tavilySearch returns for the next query: a result set, or null on any
\* failure.  After the last query the second model call is made.
SearchReturns(s, ok) ==
  LET W == World(s)
      a == CurrentAgent(sched[s])
      results == Append(sched[s].results, IF ok THEN "sources" ELSE "error")
      oks == Count([i \in 1..Len(results) |-> results[i] = "sources"])
      done == Note("search-complete", s, a, "-", "-", << oks >>)
      thinking == AgentStateNote(s, a, "thinking")
  IN /\ sched[s].pc = "search"
     /\ IF Len(results) < Len(sched[s].queries)
        THEN Commit([W EXCEPT !.sch.results = results], s)
        ELSE Commit([W EXCEPT !.sess.agentStates[a] = "thinking",
                              !.out = << done, thinking >>,
                              !.tlog = Append(Append(@, done), thinking),
                              !.sch.pc = "model2",
                              !.sch.results = results], s)
     /\ reply' = NoReply
     /\ UNCHANGED << created, dbMessages, dbEscalations, dbHumanMessages,
                     followUps, now, nextEsc, tavilyKey, wsClient, nFail, nMarked,
                     nHuman >>

\* the 500 ms pause that ends a successful turn is over
PauseEnds(s) ==
  /\ sched[s].pc = "pause"
  /\ Commit(AfterTurn(World(s), s), s)
  /\ reply' = NoReply
  /\ UNCHANGED << created, dbMessages, dbEscalations, dbHumanMessages,
                  followUps, now, nextEsc, tavilyKey, wsClient, nFail, nMarked, nHuman >>

\* --------------------------------------------------- the escalation wait
\* a wait that gives up after its first poll
GivesUpAtOnce(sess, waited) ==
  PendingCount(sess) > 0 /\ waited < PollInterval /\ sess.active

\* a wait without a ceiling
WaitsWhilePending(sess, waited) == PendingCount(sess) > 0 /\ sess.active

\* whether the wait loop goes round again
KeepsWaiting(sess, waited) ==
  /\ PendingCount(sess) > 0
  /\ waited < WaitCeiling
  /\ sess.active

\* a wait whose ceiling is never taken as reached
NeverTimedOut(waited) == waited < 0

\* if (waited >= ESCALATION_TIMEOUT), after the wait loop
TimedOut(waited) == waited >= WaitCeiling

\* one 2000 ms poll of the wait loop is over
PollEnds(s) ==
  LET W == World(s)
      waited == sched[s].waited + PollInterval
      timeout == Note("escalation-timeout", s, "-", "-", "-", << >>)
      W1 == IF TimedOut(waited)
            THEN [W EXCEPT !.out = Append(@, timeout)] ELSE W
  IN /\ sched[s].pc = "poll"
     /\ IF KeepsWaiting(session[s], waited)
        THEN Commit([W EXCEPT !.sch.waited = waited], s)
        ELSE Commit(StartTurn(W1, s, sched[s].phaseIdx, sched[s].agentIdx), s)
     /\ reply' = NoReply
     /\ UNCHANGED << created, dbMessages, dbEscalations, dbHumanMessages,
                     followUps, now, nextEsc, tavilyKey, wsClient, nFail, nMarked,
                     nHuman >>

\* -------------------------------------------------------- session lifecycle
\* a session object that starts with the problem as its first message
createsWithMessage(s) ==
  [sess |-> [NoSession EXCEPT
               !.active = TRUE,
               !.messages = << [agentId |-> "human", content |-> Plain,
                                phase |-> PhaseName(0)] >>],
   row |-> [exists |-> TRUE, phase |-> 0, active |-> TRUE],
   reg |-> TRUE, sch |-> NotRunning, out |-> << >>, tlog |-> << >>,
   plog |-> << >>, truns |-> << >>]

\* createSession: the row, the in-memory object with every agent idle, the
\* registry entry
createSession(s) ==
  [sess |-> [NoSession EXCEPT !.active = TRUE],
   row |-> [exists |-> TRUE, phase |-> 0, active |-> TRUE],
   reg |-> TRUE, sch |-> NotRunning, out |-> << >>, tlog |-> << >>,
   plog |-> << >>, truns |-> << >>]

\* runDeliberation from its call to its first await
runDeliberation(W, s) == EnterPhase(W, s, 0)

\* genId: the next unused id
FreshId == SessionOrder[Cardinality(created) + 1]

\* WebSocket new-session
NewSession ==
  /\ Cardinality(created) < Len(SessionOrder)
  /\ LET s == FreshId
         W == createSession(s)
         announced == [W EXCEPT !.out = << Note("session-created", s, "-", "-",
                                                "-", << >>) >>]
     IN /\ created' = created \cup {s}
        /\ Commit(runDeliberation(announced, s), s)
  /\ reply' = NoReply
  /\ UNCHANGED << dbMessages, dbEscalations, dbHumanMessages, followUps, now,
                  nextEsc, tavilyKey, wsClient, nFail, nMarked, nHuman >>

\* loadSession: << >> for null, else the one session rebuilt from the store
loadSession(s) ==
  LET rows == EscRowsOf(s)
  IN IF ~dbSessions[s].exists THEN << >>
     ELSE << [phase |-> dbSessions[s].phase, active |-> dbSessions[s].active,
              messages |-> dbMessages[s],
              escalations |-> [i \in 1..Len(rows) |->
                 [id |-> rows[i].id, agentId |-> rows[i].agent_id,
                  question |-> rows[i].question, sessionId |-> s,
                  answered |-> rows[i].status = "answered",
                  answer |-> rows[i].answer, createdAt |-> rows[i].created_at]],
              humanMessages |-> dbHumanMessages[s],
              agentStates |-> << >>] >>

\* an UPDATE that stamps the answer with the start of time
answerStampsEpoch(rows, eid, answer, t) ==
  [i \in 1..Len(rows) |->
     IF rows[i].id = eid
     THEN [rows[i] EXCEPT !.status = "answered", !.answer = answer,
                          !.answered_at = 0]
     ELSE rows[i]]

\* stmts.answerEscalation: UPDATE escalations SET status = 'answered',
\* answer = ?, answered_at = ? WHERE id = ?
answerEscalation(rows, eid, answer, t) ==
  [i \in 1..Len(rows) |->
     IF rows[i].id = eid
     THEN [rows[i] EXCEPT !.status = "answered", !.answer = answer,
                          !.answered_at = t]
     ELSE rows[i]]

\* the handler's marking of the in-memory escalation
markAnswered(escs, eid, answer) ==
  [i \in 1..Len(escs) |->
     IF escs[i].id = eid /\ \A j \in 1..(i - 1) : escs[j].id # eid
     THEN [escs[i] EXCEPT !.answered = TRUE, !.answer = answer]
     ELSE escs[i]]

\* a lookup that finds every escalation id in every session
AnyEscalation(escs, eid) == TRUE

HasEscalation(escs, eid) == \E i \in 1..Len(escs) : escs[i].id = eid

\* the value of a field the command does not carry
Undefined == "undefined"

\* what stmts.answerEscalation.run does with an answer: a string or null is
\* bound; an undefined one is bound as NULL or makes run throw, as the
\* driver's build has it
BoundAs(answer) ==
  IF answer = Undefined THEN { << Null >>, << >> } ELSE { << answer >> }

\* WebSocket escalation-response.  When run throws the handler's catch logs
\* the error: the in-memory escalation is already marked, nothing is announced.
EscalationResponse(sid, eid, answer) ==
  /\ IF sid \in activeSessions /\ HasEscalation(session[sid].escalations, eid)
     THEN /\ session' = [session EXCEPT
                ![sid].escalations = markAnswered(@, eid, answer)]
          /\ \E bound \in BoundAs(answer) :
               IF bound # << >>
               THEN /\ DateNow
                    /\ dbEscalations' =
                         answerEscalation(dbEscalations, eid, bound[1], now')
                    /\ emitted' = << Note("escalation-answered", sid, "-", "-",
                                          answer, << eid >>) >>
               ELSE /\ emitted' = << >>
                    /\ UNCHANGED << dbEscalations, now >>
     ELSE /\ emitted' = << >>
          /\ UNCHANGED << session, dbEscalations, now >>
  /\ reply' = NoReply
  /\ UNCHANGED << created, activeSessions, dbSessions, dbMessages,
                  dbHumanMessages, sched, followUps, nextEsc, tavilyKey, wsClient,
                  turnLog, phaseLog, turnsRun, nFail, nMarked, nHuman >>

\* WebSocket join-session
JoinSession(sid) ==
  LET found == IF sid \in activeSessions THEN << session[sid] >>
               ELSE loadSession(sid)
  IN /\ reply' = IF found = << >> THEN NoReply
                 ELSE [type |-> "session-state", session |-> found[1]]
     /\ emitted' = << >>
     /\ UNCHANGED << created, activeSessions, session, dbSessions, dbMessages,
                     dbEscalations, dbHumanMessages, sched, followUps, now,
                     nextEsc, tavilyKey, wsClient, turnLog, phaseLog, turnsRun, nFail,
                     nMarked, nHuman >>

\* a stop that announces session-stopped whether or not it found the session
StopAlwaysAnnounces(sid) ==
  /\ IF sid \in activeSessions
     THEN /\ session' = [session EXCEPT ![sid].active = FALSE]
          /\ dbSessions' = [dbSessions EXCEPT
                ![sid] = updateSessionActive(@, FALSE)]
          /\ activeSessions' = activeSessions \ {sid}
     ELSE UNCHANGED << session, dbSessions, activeSessions >>
  /\ emitted' = << Note("session-stopped", sid, "-", "-", "-", << >>) >>
  /\ reply' = NoReply
  /\ UNCHANGED << created, dbMessages, dbEscalations, dbHumanMessages, sched,
                  followUps, now, nextEsc, tavilyKey, wsClient, turnLog, phaseLog,
                  turnsRun, nFail, nMarked, nHuman >>

\* WebSocket stop-session
StopSession(sid) ==
  /\ IF sid \in activeSessions
     THEN /\ session' = [session EXCEPT ![sid].active = FALSE]
          /\ dbSessions' = [dbSessions EXCEPT
                ![sid] = updateSessionActive(@, FALSE)]
          /\ activeSessions' = activeSessions \ {sid}
          /\ emitted' = << Note("session-stopped", sid, "-", "-", "-", << >>) >>
     ELSE /\ emitted' = << >>
          /\ UNCHANGED << session, dbSessions, activeSessions >>
  /\ reply' = NoReply
  /\ UNCHANGED << created, dbMessages, dbEscalations, dbHumanMessages, sched,
                  followUps, now, nextEsc, tavilyKey, wsClient, turnLog, phaseLog,
                  turnsRun, nFail, nMarked, nHuman >>

\* WebSocket delete-session: the row goes and, by ON DELETE CASCADE, every
\* row that refers to it
DeleteSession(sid) ==
  LET Others(r) == r.session_id # sid
  IN /\ dbSessions' = [dbSessions EXCEPT ![sid] = NoRow]
     /\ dbMessages' = [dbMessages EXCEPT ![sid] = << >>]
     /\ dbEscalations' = SelectSeq(dbEscalations, Others)
     /\ dbHumanMessages' = [dbHumanMessages EXCEPT ![sid] = << >>]
     /\ activeSessions' = activeSessions \ {sid}
     /\ emitted' = << Note("session-deleted", sid, "-", "-", "-", << >>) >>
     /\ reply' = NoReply
     /\ UNCHANGED << created, session, sched, followUps, now, nextEsc,
                     tavilyKey, wsClient, turnLog, phaseLog, turnsRun, nFail, nMarked,
                     nHuman >>

\* a follow-up handed to the research scout
followUpByScout(sid) ==
  << AgentStateNote(sid, "research-scout", "thinking") >>

\* runFollowUp from its call to its await of the model: the responder is
\* announced thinking
runFollowUp(sid) ==
  << AgentStateNote(sid, "process-architect", "thinking") >>

\* WebSocket human-message
HumanMessage(sid, content) ==
  LET inRegistry == sid \in activeSessions
      isFollowUp == ~inRegistry \/ ~session[sid].active
      found == inRegistry \/ loadSession(sid) # << >>
      hm == [content |-> content]
      starts == isFollowUp /\ Trim(content) # ""
  IN /\ IF found
        THEN /\ session' = IF inRegistry
                           THEN [session EXCEPT
                                   ![sid].humanMessages = Append(@, hm)]
                           ELSE session
             /\ dbHumanMessages' = [dbHumanMessages EXCEPT
                                      ![sid] = Append(@, hm)]
             /\ emitted' = << Note("human-message", sid, "-", "-", content,
                                   << >>) >>
                           \o (IF starts THEN runFollowUp(sid) ELSE << >>)
             /\ followUps' = IF starts
                             THEN [followUps EXCEPT ![sid] = @ + 1]
                             ELSE followUps
        ELSE /\ emitted' = << >>
             /\ UNCHANGED << session, dbHumanMessages, followUps >>
     /\ nHuman' = nHuman + 1
     /\ reply' = NoReply
     /\ UNCHANGED << created, activeSessions, dbSessions, dbMessages,
                     dbEscalations, sched, now, nextEsc, tavilyKey, wsClient, turnLog,
                     phaseLog, turnsRun, nFail, nMarked >>

\* a failure that the handler's catch reports a second time
FailureRethrown(s, a) ==
  << AgentStateNote(s, a, "idle"), ErrorNote(s, a), ErrorNote(s, "-") >>

\* runFollowUp's catch block: the agent goes idle, one error is announced,
\* nothing is thrown on
FollowUpFailure(s, a) == << AgentStateNote(s, a, "idle"), ErrorNote(s, a) >>

\* the model call of a follow-up returns (ok) or throws
FollowUpReturns(s, ok) ==
  LET a == "process-architect"
      msg == [agentId |-> a, content |-> Plain, phase |-> "Follow-up"]
      speaking == AgentStateNote(s, a, "speaking")
      idle == AgentStateNote(s, a, "idle")
      persisted == ok /\ ForeignKeyHolds(s)
  IN /\ followUps[s] > 0
     /\ followUps' = [followUps EXCEPT ![s] = @ - 1]
     /\ dbMessages' = IF persisted
                      THEN [dbMessages EXCEPT ![s] = Append(@, msg)]
                      ELSE dbMessages
     /\ emitted' =
          IF persisted
          THEN << speaking, Note("message", s, a, "-", "Follow-up", << >>),
                  idle >>
          ELSE (IF ok THEN << speaking >> ELSE << >>)
                 \o FollowUpFailure(s, a)
     /\ reply' = NoReply
     /\ UNCHANGED << created, activeSessions, session, dbSessions,
                     dbEscalations, dbHumanMessages, sched, now, nextEsc,
                     tavilyKey, wsClient, turnLog, phaseLog, turnsRun, nFail, nMarked,
                     nHuman >>

\* ------------------------------------------------------ HTTP MCP tools
\* setupMCPServer is handed the table of prepared statements as its db, and
\* that object has no prepare method: db.prepare(...) throws a TypeError
DepsDbHasPrepare == FALSE

\* MCP tool warroom_answer_escalation (mcp-server.js)
McpAnswerEscalation(eid, answer) ==
  LET known == \E i \in 1..Len(dbEscalations) : dbEscalations[i].id = eid
  IN /\ IF DepsDbHasPrepare /\ known
        THEN /\ DateNow
             /\ dbEscalations' = answerEscalation(dbEscalations, eid, answer, now')
             /\ reply' = [type |-> "mcp-result"]
        ELSE /\ reply' = [type |-> "mcp-error"]
             /\ UNCHANGED << dbEscalations, now >>
     /\ emitted' = << >>
     /\ UNCHANGED << created, activeSessions, session, dbSessions, dbMessages,
                     dbHumanMessages, sched, followUps, nextEsc,
                     tavilyKey, wsClient, turnLog, phaseLog, turnsRun, nFail, nMarked,
                     nHuman >>

\* MCP tool warroom_create_session (mcp-server.js): createSession is called
\* and the id is returned; runDeliberation is not called and nothing is
\* broadcast
McpCreateSession ==
  /\ Cardinality(created) < Len(SessionOrder)
  /\ LET s == FreshId
     IN /\ created' = created \cup {s}
        /\ Commit(createSession(s), s)
        /\ reply' = [type |-> "mcp-result", sessionId |-> s]
  /\ UNCHANGED << dbMessages, dbEscalations, dbHumanMessages, followUps, now,
                  nextEsc, tavilyKey, wsClient, nFail, nMarked, nHuman >>

\* ------------------------------------------------------- export endpoints
\* The ids a request may carry in its path.  A session id stands for a value
\* of genId (the clock in base 36 and up to four more base-36 digits); the
\* others are named after what they are.
RequestIds ==
  SessionIds \cup { "abcde", "abcdef", "a*32", "a*33", "abc-ef!" }

IdLength(id) ==
  CASE id \in SessionIds -> 12
    [] id = "abcde" -> 5
    [] id = "abcdef" -> 6
    [] id = "a*32" -> 32
    [] id = "a*33" -> 33
    [] OTHER -> 7

IsAlphanumeric(id) == id # "abc-ef!"

MinIdLength == 6
MaxIdLength == 32

\* the id check with the upper length left out
NoLongerThanAny(id) == IsAlphanumeric(id) /\ IdLength(id) >= MinIdLength

\* /^[a-z0-9]{6,32}$/i.test(id)
ValidId(id) ==
  IsAlphanumeric(id) /\ IdLength(id) >= MinIdLength
                     /\ IdLength(id) <= MaxIdLength

\* the modes and formats a query may carry, Undefined when it carries none
ExportModes == { "full_transcript", "end_result", "end_result_with_qa" }
ExportFormats == { "txt", "json", "md" }
QueryModes == ExportModes \cup { "hacky_mode", Undefined }
QueryFormats == ExportFormats \cup { "docx", Undefined }

\* the queries sent: every mode with and without the JSON format, every
\* format with no mode and with an unrecognised one
Queries ==
  (QueryModes \X { "json", Undefined })
    \cup ({ "hacky_mode", Undefined } \X QueryFormats)

\* a format check that keeps whatever the query names
formatAsGiven(fmt) == IF fmt = Undefined THEN "txt" ELSE fmt

validateExportMode(mode) == IF mode \in ExportModes THEN mode ELSE Null
validateExportFormat(fmt) == IF fmt \in ExportFormats THEN fmt ELSE "txt"

\* a || b for a value that may be null
OrElse(a, b) == IF a \in { Null, Undefined, "" } THEN b ELSE a

\* stmts.getSession.get(id): << >> when there is no such row
getSession(id) ==
  IF id \in SessionIds /\ dbSessions[id].exists THEN << dbSessions[id] >>
  ELSE << >>

\* the lists an export is made of
Transcript(sess) ==
  [i \in 1..Len(sess.messages) |->
     [agent |-> sess.messages[i].agentId, phase |-> sess.messages[i].phase,
      content |-> sess.messages[i].content]]

\* a synthesis list that takes the messages of every phase
EveryMessage(sess) ==
  [i \in 1..Len(sess.messages) |->
     [agent |-> sess.messages[i].agentId,
      content |-> sess.messages[i].content]]

Synthesis(sess) ==
  LET kept == SelectSeq(sess.messages, IsSynthesis)
  IN [i \in 1..Len(kept) |->
        [agent |-> kept[i].agentId, content |-> kept[i].content]]

Questions(sess) ==
  [i \in 1..Len(sess.escalations) |->
     [askedBy |-> sess.escalations[i].agentId,
      question |-> sess.escalations[i].question,
      answer |-> OrElse(sess.escalations[i].answer, Null),
      answered |-> sess.escalations[i].answered]]

HumanMessages(sess) ==
  [i \in 1..Len(sess.humanMessages) |->
     [content |-> sess.humanMessages[i].content]]

\* an ISO timestamp
IsoTime == "iso"

buildJsonExport(sess, mode, finishedAt) ==
  CASE mode = "full_transcript" ->
         [mode |-> mode, finishedAt |-> finishedAt,
          transcript |-> Transcript(sess), questions |-> Questions(sess),
          humanMessages |-> HumanMessages(sess)]
    [] mode = "end_result" ->
         [mode |-> mode, finishedAt |-> finishedAt,
          synthesis |-> Synthesis(sess)]
    [] mode = "end_result_with_qa" ->
         [mode |-> mode, finishedAt |-> finishedAt,
          synthesis |-> Synthesis(sess), questions |-> Questions(sess),
          humanMessages |-> HumanMessages(sess)]
    [] OTHER -> [mode |-> mode, finishedAt |-> finishedAt]

\* the text of an export as the sections it prints: the header names the
\* mode, and the completion time when there is one
buildTextExport(sess, mode, finishedAt) ==
  [mode |-> mode,
   completed |-> finishedAt # Null,
   messages |-> CASE mode = "full_transcript" -> Transcript(sess)
                  [] OTHER -> Synthesis(sess),
   questions |-> IF mode = "end_result" THEN << >> ELSE Questions(sess),
   humanMessages |-> IF mode = "end_result" THEN << >>
                     ELSE HumanMessages(sess)]

buildExport(sess, mode, format) ==
  LET finishedAt == IF sess.active THEN Null ELSE IsoTime
  IN IF format = "json" THEN buildJsonExport(sess, mode, finishedAt)
     ELSE buildTextExport(sess, mode, finishedAt)

MimeType(format) ==
  CASE format = "json" -> "application/json"
    [] format = "md" -> "text/markdown"
    [] OTHER -> "text/plain"

\* an HTTP response, kept with the request it answers (the path's id, and
\* the query where there is one); consulted tells whether a statement was
\* run on the store
Response(request, status, consulted, body) ==
  [type |-> "http", request |-> request, status |-> status,
   consulted |-> consulted, body |-> body]

\* a request reads: it changes nothing but the response sent
Reads(response) ==
  /\ reply' = response
  /\ emitted' = << >>
  /\ UNCHANGED << created, activeSessions, session, dbSessions, dbMessages,
                  dbEscalations, dbHumanMessages, sched, followUps, now,
                  nextEsc, tavilyKey, wsClient, turnLog, phaseLog, turnsRun, nFail,
                  nMarked, nHuman >>

\* GET /api/sessions/:id/export
GetExport(id, queryMode, queryFormat) ==
  LET request == << id, queryMode, queryFormat >>
      mode == OrElse(validateExportMode(queryMode), "full_transcript")
      format == validateExportFormat(queryFormat)
      found == IF id \in SessionIds THEN loadSession(id) ELSE << >>
  IN Reads(IF ~ValidId(id)
           THEN Response(request, 400, FALSE, [error |-> "Invalid session id"])
           ELSE IF found = << >>
           THEN Response(request, 404, TRUE, [error |-> "Session not found"])
           ELSE Response(request, 200, TRUE, buildExport(found[1], mode, format))
                  @@ [contentType |-> MimeType(format),
                      filename |-> << id, mode, format >>])

\* GET /api/sessions/:id/export/options
GetExportOptions(id) ==
  LET request == << id >>
      row == getSession(id)
      messageCount == Len(dbMessages[id])
      synthesisCount == Count([i \in 1..Len(dbMessages[id]) |->
                                 IsSynthesis(dbMessages[id][i])])
      qaCount == Len(EscRowsOf(id))
  IN Reads(IF ~ValidId(id)
           THEN Response(request, 400, FALSE, [error |-> "Invalid session id"])
           ELSE IF row = << >>
           THEN Response(request, 404, TRUE, [error |-> "Session not found"])
           ELSE Response(request, 200, TRUE,
                  [isComplete |-> ~row[1].active,
                   messageCount |-> messageCount,
                   hasSynthesis |-> synthesisCount > 0,
                   hasQA |-> qaCount > 0,
                   full_transcript |-> messageCount > 0,
                   end_result |-> synthesisCount > 0,
                   end_result_with_qa |-> synthesisCount > 0 \/ qaCount > 0]))

\* ------------------------------------------------ the stdio MCP client
\* mcp-server.mjs: every tool that sends a command opens a WebSocket of its
\* own, sends the command when the socket is open and waits in wsCmd for a
\* broadcast.  The server adds the socket to wss.clients when it accepts it,
\* so the client is sent everything broadcast from then on.
ResolveTypes ==
  { "session-created", "session-stopped", "session-deleted",
    "escalation-answered", "session-state", "error" }

\* the commands the tools send through wsCmd
WsCommands ==
  { [type |-> "new-session", sessionId |-> "-"] }
    \cup [type : { "stop-session", "delete-session", "escalation-response" },
          sessionId : SessionIds]

\* the first broadcast of the last run that wsCmd resolves with, if any
IsResolving(n) == n.type \in ResolveTypes
Resolving == SelectSeq(emitted, IsResolving)

\* a broadcast wsCmd resolves with is on its way to the open socket
Hearable == wsClient.state = "open" /\ Resolving # << >>

\* what the tool tells its caller once wsCmd has resolved with a broadcast:
\* whether it reports success, and the session it names
ToolResult(cmd, heard) ==
  CASE cmd.type = "new-session" ->
         [success |-> heard.type = "session-created",
          sessionId |-> heard.sessionId]
    [] cmd.type = "escalation-response" ->
         [success |-> heard.type = "escalation-answered",
          sessionId |-> cmd.sessionId]
    [] OTHER -> [success |-> TRUE, sessionId |-> cmd.sessionId]

\* a tool calls wsCmd: the socket is opened and accepted
WsOpens(cmd) ==
  /\ wsClient.state = "idle"
  /\ wsClient' = [state |-> "open", cmd |-> cmd]
  /\ emitted' = << >>
  /\ reply' = NoReply
  /\ UNCHANGED << created, activeSessions, session, dbSessions, dbMessages,
                  dbEscalations, dbHumanMessages, sched, followUps, now,
                  nextEsc, tavilyKey, turnLog, phaseLog, turnsRun, nFail,
                  nMarked, nHuman >>

\* the socket's message handler is given the first broadcast of a resolving
\* type: wsCmd resolves with it and closes the socket; the tool returns
WsHears ==
  /\ Hearable
  /\ wsClient' = [state |-> "resolved", cmd |-> wsClient.cmd,
                  heard |-> Resolving[1],
                  result |-> ToolResult(wsClient.cmd, Resolving[1])]
  /\ reply' = NoReply
  /\ UNCHANGED << created, activeSessions, session, dbSessions, dbMessages,
                  dbEscalations, dbHumanMessages, sched, followUps, now,
                  nextEsc, tavilyKey, emitted, turnLog, phaseLog, turnsRun,
                  nFail, nMarked, nHuman >>

\* the 30 s timer of wsCmd fires first: the promise is rejected
WsTimesOut ==
  /\ wsClient.state = "open"
  /\ wsClient' = [state |-> "rejected", cmd |-> wsClient.cmd]
  /\ emitted' = << >>
  /\ reply' = NoReply
  /\ UNCHANGED << created, activeSessions, session, dbSessions, dbMessages,
                  dbEscalations, dbHumanMessages, sched, followUps, now,
                  nextEsc, tavilyKey, turnLog, phaseLog, turnsRun, nFail,
                  nMarked, nHuman >>

\* ----------------------------------------------------------- specification
\* the state after the server has started, with the search key set or not as
\* keys allows and the clock at one of clocks
Start(keys, clocks) ==
  /\ created = {}
  /\ activeSessions = {}
  /\ session = [s \in SessionIds |-> NoSession]
  /\ dbSessions = [s \in SessionIds |-> NoRow]
  /\ dbMessages = [s \in SessionIds |-> << >>]
  /\ dbEscalations = << >>
  /\ dbHumanMessages = [s \in SessionIds |-> << >>]
  /\ sched = [s \in SessionIds |-> NotRunning]
  /\ followUps = [s \in SessionIds |-> 0]
  /\ now \in clocks
  /\ nextEsc = 0
  /\ tavilyKey \in keys
  /\ wsClient = NoCommand
  /\ emitted = << >>
  /\ reply = NoReply
  /\ turnLog = [s \in SessionIds |-> << >>]
  /\ phaseLog = [s \in SessionIds |-> << >>]
  /\ turnsRun = [s \in SessionIds |-> << >>]
  /\ nFail = 0
  /\ nMarked = 0
  /\ nHuman = 0

Init == Start(BOOLEAN, {0})

\* events so far
Events == nFail + nMarked + nHuman

\* the outputs the model call session s awaits may return: marked ones while
\* the run may hold another event, or when the turn already counts as one
Outputs(s, marked) ==
  IF Events < MaxEvents \/ sched[s].pc = "model2"
  THEN {Plain} \cup marked ELSE {Plain}

\* the escalation ids a client may name: those handed out and one that is not
EscIds == 1..(nextEsc + 1)

\* one session's scheduler and its follow-ups move on
Scheduler(s) ==
  \/ \E text \in Outputs(s, MarkedOutputs) : ModelAnswers(s, text)
  \/ Events < MaxEvents /\ ModelFails(s)
  \/ \E ok \in BOOLEAN : SearchReturns(s, ok)
  \/ PauseEnds(s)
  \/ sched[s].waited < MaxPolls * PollInterval /\ PollEnds(s)
  \/ \E ok \in BOOLEAN : FollowUpReturns(s, ok)

\* a client sends a command about a session it knows
Client ==
  \/ created = {} /\ NewSession
  \/ \E sid \in created, eid \in 1..nextEsc, answer \in Answers :
       EscalationResponse(sid, eid, answer)
  \/ \E sid \in created : StopSession(sid)
  \/ \E sid \in created : DeleteSession(sid)
  \/ \E sid \in created, content \in Contents :
       Events < MaxEvents /\ HumanMessage(sid, content)

Next ==
  \/ \E s \in SessionIds : Scheduler(s)
  \/ Client

Spec == Init /\ [][Next]_vars

\* ---------------------------------------------- the escalation wait, whole
\* Every poll of a wait up to the ceiling, with search configured and the
\* clock at its last value.
InitWait == Start({TRUE}, {MaxClock})

SchedulerWait(s, marked) ==
  \/ \E text \in Outputs(s, marked) : ModelAnswers(s, text)
  \/ Events < MaxEvents /\ ModelFails(s)
  \/ \E ok \in BOOLEAN : SearchReturns(s, ok)
  \/ PauseEnds(s)
  \/ PollEnds(s)

ClientWait ==
  \/ created = {} /\ NewSession
  \/ \E sid \in created, eid \in 1..nextEsc, answer \in Answers :
       EscalationResponse(sid, eid, answer)
  \/ \E sid \in created : StopSession(sid)

NextWait ==
  \/ \E s \in SessionIds : SchedulerWait(s, MarkedOutputs)
  \/ ClientWait

SpecWait == InitWait /\ [][NextWait]_vars

\* The same with one question per output, and with the model, the search and
\* the timers always coming back: the Node.js event loop runs a timer's
\* callback once it is due, and a model call or a search call is assumed to
\* return or throw.  Clients are under
\* no obligation to answer or to stop.
NextWaitFair ==
  \/ \E s \in SessionIds : SchedulerWait(s, {Ask1, Srch1})
  \/ ClientWait

SpecWaitFair ==
  /\ InitWait
  /\ [][NextWaitFair]_vars
  /\ \A s \in SessionIds : WF_vars(SchedulerWait(s, {Ask1, Srch1}))

\* ------------------------------------------------ the escalation ledger
\* Every way an answer can arrive (the WebSocket command, the HTTP MCP tool)
\* against turns that raise escalations, with search not configured.
InitLedger == Start({FALSE}, {0})

SchedulerLedger(s) ==
  \/ \E text \in Outputs(s, {Ask1, Ask2}) : ModelAnswers(s, text)
  \/ PauseEnds(s)
  \/ sched[s].waited < MaxPolls * PollInterval /\ PollEnds(s)

ClientLedger ==
  \/ created = {} /\ NewSession
  \/ \E sid \in SessionIds, eid \in EscIds, answer \in Answers :
       EscalationResponse(sid, eid, answer)
  \/ \E eid \in EscIds, answer \in Answers : McpAnswerEscalation(eid, answer)
  \/ \E sid \in SessionIds : JoinSession(sid)
  \/ \E sid \in SessionIds : StopSession(sid)
  \/ \E sid \in SessionIds : DeleteSession(sid)

NextLedger ==
  \/ \E s \in SessionIds : SchedulerLedger(s)
  \/ ClientLedger

SpecLedger == InitLedger /\ [][NextLedger]_vars

\* ------------------------------------------------------ the entry points
\* Both ways a session is created (the WebSocket command, the HTTP MCP tool)
\* and answers that are a string, null or missing, with search not
\* configured.
AnswersSent == Answers \cup { Null, Undefined }

InitEntry == Start({FALSE}, {0})

SchedulerEntry(s) ==
  \/ \E text \in Outputs(s, { Ask1 }) : ModelAnswers(s, text)
  \/ PauseEnds(s)
  \/ sched[s].waited < MaxPolls * PollInterval /\ PollEnds(s)

ClientEntry ==
  \/ created = {} /\ NewSession
  \/ created = {} /\ McpCreateSession
  \/ \E sid \in created, eid \in 1..nextEsc, answer \in AnswersSent :
       EscalationResponse(sid, eid, answer)
  \/ \E sid \in created : StopSession(sid)

NextEntry ==
  \/ \E s \in SessionIds : SchedulerEntry(s)
  \/ ClientEntry

SpecEntry == InitEntry /\ [][NextEntry]_vars

\* ------------------------------------------------------ the marker lines
\* Outputs with no, one or two marker lines, with and without a question,
\* against every command that may come between turns.
SchedulerMarkers(s) ==
  \/ \E text \in Outputs(s, { Ask1, Ask2, Bare1, Bare2, Bare3 }) :
       ModelAnswers(s, text)
  \/ Events < MaxEvents /\ ModelFails(s)
  \/ PauseEnds(s)
  \/ sched[s].waited < MaxPolls * PollInterval /\ PollEnds(s)
  \/ \E ok \in BOOLEAN : FollowUpReturns(s, ok)

ClientMarkers ==
  \/ created = {} /\ NewSession
  \/ \E sid \in created, eid \in 1..nextEsc, answer \in Answers :
       EscalationResponse(sid, eid, answer)
  \/ \E sid \in created : JoinSession(sid)
  \/ \E sid \in created : StopSession(sid)
  \/ \E sid \in created, content \in Contents :
       Events < MaxEvents /\ HumanMessage(sid, content)

NextMarkers ==
  \/ \E s \in SessionIds : SchedulerMarkers(s)
  \/ ClientMarkers

SpecMarkers == InitEntry /\ [][NextMarkers]_vars

\* ------------------------------------------------------ the undisturbed run
\* No stop, no deletion, no marker line that asks the human, no search key,
\* every model call returning; the scout may still write SEARCH lines, and
\* clients may join and send human messages.
SchedulerPlain(s) ==
  \/ \E text \in Outputs(s, { Srch1 }) : ModelAnswers(s, text)
  \/ PauseEnds(s)
  \/ FollowUpReturns(s, TRUE)

ClientPlain ==
  \/ created = {} /\ NewSession
  \/ \E sid \in created : JoinSession(sid)
  \/ \E sid \in created, content \in Contents :
       Events < MaxEvents /\ HumanMessage(sid, content)

NextPlain ==
  \/ \E s \in SessionIds : SchedulerPlain(s)
  \/ ClientPlain

SpecPlain == InitEntry /\ [][NextPlain]_vars

\* ------------------------------------------------------ two sessions
\* Two sessions in flight together, each with its own scheduler loop, and
\* commands addressed to either, with search not configured.  Each loop is
\* followed through its first MaxTurnsTwo turns, and to its end once the
\* session is stopped.
SchedulerTwo(s) ==
  \/ \E text \in Outputs(s, { Ask1 }) : ModelAnswers(s, text)
  \/ (Len(turnsRun[s]) < MaxTurnsTwo \/ ~session[s].active) /\ PauseEnds(s)
  \/ sched[s].waited < MaxPolls * PollInterval /\ PollEnds(s)
  \/ FollowUpReturns(s, TRUE)

ClientTwo ==
  \/ NewSession
  \/ \E sid \in created, eid \in 1..nextEsc, answer \in Answers :
       EscalationResponse(sid, eid, answer)
  \/ \E sid \in created : StopSession(sid)
  \/ \E sid \in created : DeleteSession(sid)
  \/ \E sid \in created, content \in Contents :
       Events < MaxEvents /\ HumanMessage(sid, content)

NextTwo ==
  \/ \E s \in SessionIds : SchedulerTwo(s)
  \/ ClientTwo

SpecTwo == InitEntry /\ [][NextTwo]_vars

\* ------------------------------------------------------ the search protocol
\* Outputs with one, two and six SEARCH lines, as first and as second
\* response, searches that return or fail, with the search key set or not.
SearchOutputs == { Srch1, Srch2, Srch6 }

SchedulerSearch(s) ==
  \/ \E text \in Outputs(s, SearchOutputs) : ModelAnswers(s, text)
  \/ Events < MaxEvents /\ ModelFails(s)
  \/ sched[s].pc = "model2" /\ ModelFails(s)
  \/ \E ok \in BOOLEAN : SearchReturns(s, ok)
  \/ PauseEnds(s)

ClientSearch ==
  \/ created = {} /\ NewSession
  \/ \E sid \in created : StopSession(sid)

NextSearch ==
  \/ \E s \in SessionIds : SchedulerSearch(s)
  \/ ClientSearch

SpecSearch == Init /\ [][NextSearch]_vars

\* ------------------------------------------------------ the exports
\* Export requests against a session at every point of its life: running,
\* waiting for an answer, stopped, completed, with and without questions,
\* answers and human messages.  A request with a query is sent for the
\* sessions created; every id is tried without one.
SchedulerExport(s) ==
  \/ \E text \in Outputs(s, { Ask1 }) : ModelAnswers(s, text)
  \/ PauseEnds(s)

ClientExport ==
  \/ created = {} /\ NewSession
  \/ \E sid \in created, eid \in 1..nextEsc, answer \in Answers :
       EscalationResponse(sid, eid, answer)
  \/ \E sid \in created : StopSession(sid)
  \/ \E sid \in created : Events < MaxEvents /\ HumanMessage(sid, "hello")
  \/ \E id \in RequestIds : GetExport(id, Undefined, Undefined)
  \/ \E id \in created, query \in Queries :
       GetExport(id, query[1], query[2])
  \/ \E id \in RequestIds : GetExportOptions(id)

NextExport ==
  \/ \E s \in SessionIds : SchedulerExport(s)
  \/ ClientExport

SpecExport == InitEntry /\ [][NextExport]_vars

\* ------------------------------------------------- the stdio MCP client
\* One wsCmd call of the stdio MCP client next to WebSocket clients that
\* create, answer, stop and delete sessions, and up to two scheduler loops,
\* each followed through its first MaxTurnsMcp turns and up to the wait for
\* the human's answer (and to its end once the session is stopped).
\* The server handles the tool's command as it handles any client's.  A
\* broadcast reaches the open socket in the order it was sent: while one
\* that resolves wsCmd is on its way, it is delivered before anything else.
SchedulerMcp(s) ==
  \/ \E text \in Outputs(s, { Ask1 }) : ModelAnswers(s, text)
  \/ Events < MaxEvents /\ ModelFails(s)
  \/ (Len(turnsRun[s]) < MaxTurnsMcp \/ ~session[s].active) /\ PauseEnds(s)

ClientMcp ==
  \/ NewSession
  \/ \E sid \in created, eid \in 1..nextEsc, answer \in Answers :
       EscalationResponse(sid, eid, answer)
  \/ \E sid \in created : StopSession(sid)
  \/ \E sid \in created : DeleteSession(sid)
  \/ \E cmd \in WsCommands : WsOpens(cmd)
  \/ WsTimesOut

\* the run is followed until the wsCmd call has returned
Returned == wsClient.state \in { "resolved", "rejected" }

NextMcp ==
  \/ WsHears
  \/ ~Hearable /\ ~Returned /\ \E s \in SessionIds : SchedulerMcp(s)
  \/ ~Hearable /\ ~Returned /\ ClientMcp

SpecMcp == InitEntry /\ [][NextMcp]_vars

\* ------------------------------------------------------------- properties
\* every turn of a full run, in order: each phase's roster in turn
PlanOf(p) == [i \in 1..Len(PhaseAgents(p)) |-> << p, PhaseAgents(p)[i] >>]
Plan == PlanOf(0) \o PlanOf(1) \o PlanOf(2) \o PlanOf(3) \o PlanOf(4)

IsPrefix(a, b) == Len(a) <= Len(b) /\ a = SubSeq(b, 1, Len(a))

\* a turn of session s starts in this step
TurnStarts(s) == turnsRun'[s] # turnsRun[s]
\* runDeliberation of session s ends in this step
LoopEnds(s) == sched[s].pc # "done" /\ sched'[s].pc = "done"

HasNote(seq, type, s) ==
  \E i \in 1..Len(seq) : seq[i].type = type /\ seq[i].sessionId = s

\* C1: phase-change is announced for 0,1,2,3,4 in that order without gaps; a
\* run that ends with phases left out found the session inactive; the turns
\* run are the rosters in order, each started while the session is in the
\* turn's phase, and every phase-loop message labelled with a phase's name
\* comes from an agent of that phase's roster.
C1_PhasesInOrder ==
  /\ [](\A s \in SessionIds :
          /\ Len(phaseLog[s]) <= NumPhases
          /\ \A i \in 1..Len(phaseLog[s]) : phaseLog[s][i] = i - 1
          /\ IsPrefix(turnsRun[s], Plan)
          /\ \A i \in 1..Len(session[s].messages) :
               \E p \in 0..(NumPhases - 1) :
                 /\ session[s].messages[i].phase = PhaseName(p)
                 /\ \E j \in 1..Len(PhaseAgents(p)) :
                      PhaseAgents(p)[j] = session[s].messages[i].agentId)
  /\ [][\A s \in SessionIds :
          /\ LoopEnds(s) /\ Len(phaseLog'[s]) < NumPhases
               => ~session[s].active
          /\ TurnStarts(s) =>
               /\ turnsRun'[s][Len(turnsRun'[s])][1] = session'[s].phase
               /\ session'[s].phase = phaseLog'[s][Len(phaseLog'[s])]]_vars

\* a run that went through all five phases and all fifteen turns
C1_Witness ==
  /\ sched["s1"].pc = "done"
  /\ phaseLog["s1"] = << 0, 1, 2, 3, 4 >>
  /\ Len(turnsRun["s1"]) = Len(Plan)
  /\ Len(session["s1"].messages) = Len(Plan)

\* C2 as stated: the scheduler starts a turn of a session only while its
\* active flag is set.
C2_NoTurnAfterStop ==
  [][\A s \in created : TurnStarts(s) => session[s].active]_vars

\* the scheduler of session s starts waiting on pending escalations in this step
WaitBegins(s) == sched[s].pc # "poll" /\ sched'[s].pc = "poll"

\* C3: with an escalation pending when a turn is about to start, the scheduler
\* announces waiting-for-human with the number pending and starts no turn;
\* a turn starts only when nothing is pending, or from a wait whose 150th
\* poll has ended (300000 ms), or from a wait of a session no longer active.
C3_WaitsForHuman ==
  /\ [][\A s \in SessionIds :
          /\ WaitBegins(s) =>
               /\ PendingCount(session'[s]) > 0
               /\ ~TurnStarts(s)
               /\ emitted'[Len(emitted')] =
                    Note("waiting-for-human", s, "-", "-", "-",
                         << PendingCount(session'[s]) >>)
          /\ TurnStarts(s) =>
               \/ PendingCount(session[s]) = 0
               \/ /\ sched[s].pc = "poll"
                  /\ \/ sched[s].waited + PollInterval >= WaitCeiling
                     \/ ~session[s].active]_vars
  /\ [](\A s \in SessionIds :
          sched[s].pc = "poll" =>
            /\ sched[s].waited < WaitCeiling
            /\ \A a \in AgentIds : session[s].agentStates[a] = "idle")

\* a turn started by the ceiling alone: the wait timed out with the session
\* active and two escalations still pending
C3_Witness ==
  /\ sched["s1"].pc = "model1"
  /\ HasNote(emitted, "escalation-timeout", "s1")
  /\ session["s1"].active
  /\ PendingCount(session["s1"]) = 2

\* C4: when model calls and timers come back, every scheduler loop ends, with
\* the session inactive, out of the registry and deliberation-complete
\* announced, whether or not escalations are answered or a stop is asked
\* for; no wait sees more than 150 polls.
C4_LoopTerminates ==
  /\ \A s \in SessionIds :
       sched[s].pc # "none" ~>
         (sched[s].pc = "done" /\ ~session[s].active /\ s \notin activeSessions)
  /\ [][\A s \in SessionIds :
          LoopEnds(s) => HasNote(emitted', "deliberation-complete", s)]_vars
  /\ [](\A s \in SessionIds :
          sched[s].waited <= WaitCeiling - PollInterval)

\* a run of fifteen turns that ended although the question its first turn
\* raised was never answered: the waits before the later turns timed out
C4_Witness ==
  /\ sched["s1"].pc = "done"
  /\ Len(session["s1"].messages) = Len(Plan)
  /\ session["s1"].messages[1].content = Ask1
  /\ PendingCount(session["s1"]) = 1
  /\ dbSessions["s1"].active = FALSE

\* a model call of session s's phase-loop turn throws in this step
CallFails(s) == nFail' = nFail + 1 /\ sched[s].pc \in {"model1", "model2"}

IsError(n) == n.type = "error"

\* C5: when the model call of a phase-loop turn fails, the turn appends no
\* message in memory or in the store and creates no escalation; the agent
\* goes idle and one error naming the agent and the session is announced;
\* the failure does not end the session, and the scheduler goes on to the
\* next turn of the plan (starting it, or waiting on pending escalations
\* first), or ends the run when the failed turn was the last.
C5_FailedTurn ==
  [][\A s \in SessionIds :
       CallFails(s) =>
         LET a == CurrentAgent(sched[s])
             n == Len(turnsRun[s])
         IN /\ session'[s].messages = session[s].messages
            /\ dbMessages' = dbMessages
            /\ session'[s].escalations = session[s].escalations
            /\ dbEscalations' = dbEscalations
            /\ emitted'[1] = AgentStateNote(s, a, "idle")
            /\ emitted'[2] = ErrorNote(s, a)
            /\ Count([i \in 1..Len(emitted') |-> IsError(emitted'[i])]) = 1
            /\ \/ session'[s].agentStates[a] = "idle"
               \/ sched'[s].pc = "model1" /\ CurrentAgent(sched'[s]) = a
            /\ session'[s].active = session[s].active \/ sched'[s].pc = "done"
            /\ session[s].active =>
                 IF n = Len(Plan)
                 THEN sched'[s].pc = "done"
                 ELSE /\ sched'[s].pc \in {"model1", "poll"}
                      /\ << sched'[s].phaseIdx, CurrentAgent(sched'[s]) >>
                           = Plan[n + 1]
                      /\ sched'[s].pc = "model1" =>
                           turnsRun'[s] = Append(turnsRun[s], Plan[n + 1])]_vars

\* a turn has failed and the next agent of the roster is thinking
C5_Witness ==
  /\ nFail = 1
  /\ Len(emitted) = 3
  /\ emitted[2] = ErrorNote("s1", "process-architect")
  /\ emitted[3] = AgentStateNote("s1", "research-scout", "thinking")
  /\ session["s1"].active
  /\ session["s1"].messages = << >>

\* turns of session s awaiting a model call or a search
TurnsInProgress(s) ==
  (IF sched[s].pc \in {"model1", "search", "model2"} THEN 1 ELSE 0)
    + followUps[s]

\* C6 as stated: at no time are two turns of one session in progress.
C6_OneTurnAtATime == \A s \in SessionIds : TurnsInProgress(s) <= 1

Kinds(log) == [i \in 1..Len(log) |-> << log[i].type, log[i].state >>]
Thinking == << "agent-state", "thinking" >>
SearchPart ==
  << << "agent-state", "searching" >>, << "search-started", "-" >>,
     << "search-complete", "-" >>, Thinking >>
SpeakPart ==
  << << "agent-state", "speaking" >>, << "(messages.push)", "-" >>,
     << "(insertMessage)", "-" >>, << "message", "-" >> >>

\* what the turn of session s has added to its log in this step
Added(s) == SubSeq(turnLog'[s], Len(turnLog[s]) + 1, Len(turnLog'[s]))

\* C7: a successful phase-loop turn announces thinking; then, only if the
\* search runs, searching, search-started, search-complete, thinking; then
\* speaking; then one message, appended in memory and persisted before it is
\* announced; then one escalation for each question extracted from the
\* message; then idle.  Every one of them names the turn's agent and session.
C7_TurnOrder ==
  /\ [](\A s \in SessionIds :
          LET log == turnLog[s]
              a == CurrentAgent(sched[s])
              head == << Thinking >>
                        \o (IF sched[s].queries # << >> THEN SearchPart ELSE << >>)
              msgs == session[s].messages
              k == Len(extractEscalations(msgs[Len(msgs)].content))
          IN /\ sched[s].pc = "model1" => Kinds(log) = << Thinking >>
             /\ sched[s].pc = "search" =>
                  Kinds(log) = SubSeq(<< Thinking >> \o SearchPart, 1, 3)
             /\ sched[s].pc = "model2" =>
                  Kinds(log) = << Thinking >> \o SearchPart
             /\ sched[s].pc = "pause" =>
                  /\ Kinds(log) =
                       ((head \o SpeakPart)
                          \o [i \in 1..k |-> << "escalation", "-" >>])
                         \o << << "agent-state", "idle" >> >>
                  /\ \A i \in 1..Len(log) :
                       log[i].agentId = a /\ log[i].sessionId = s
                  /\ msgs[Len(msgs)].agentId = a)
  /\ [][\A s \in SessionIds :
          /\ sched'[s] # sched[s]
          /\ sched[s].pc \in {"model1", "search", "model2"}
          /\ sched'[s].pc \in {"search", "model2", "pause"}
          => /\ IsPrefix(turnLog[s], turnLog'[s])
             /\ emitted' = SelectSeq(Added(s), IsNotification)
             /\ sched'[s].pc = "pause" =>
                  LET msgs == session'[s].messages
                  IN /\ msgs = Append(session[s].messages, msgs[Len(msgs)])
                     /\ dbMessages'[s] = Append(dbMessages[s], msgs[Len(msgs)])]_vars

\* a turn that searched, spoke and raised one escalation has gone idle
C7_Witness ==
  /\ sched["s1"].pc = "pause"
  /\ sched["s1"].queries # << >>
  /\ Len(turnLog["s1"]) = 11
  /\ turnLog["s1"][10].type = "escalation"

\* rows j of the table now and k of the table next are the same escalation
SameRow(j, k) == dbEscalations[j].id = dbEscalations'[k].id

\* C8: an escalation's status, in memory and in the store, is pending or
\* answered and never goes from answered back to pending, whichever way
\* answers arrive (the WebSocket command, the MCP tool); an answered row's
\* answered_at is at least its created_at.
C8_StatusOneWay ==
  /\ [](\A i \in 1..Len(dbEscalations) :
          LET r == dbEscalations[i]
          IN /\ r.status \in {"pending", "answered"}
             /\ r.status = "answered" =>
                  r.answered_at # NullTime /\ r.answered_at >= r.created_at)
  /\ [][/\ \A j \in 1..Len(dbEscalations), k \in 1..Len(dbEscalations') :
            SameRow(j, k) /\ dbEscalations[j].status = "answered"
              => dbEscalations'[k].status = "answered"
        /\ \A s \in SessionIds : \A i \in 1..Len(session[s].escalations) :
            /\ i <= Len(session'[s].escalations)
            /\ session'[s].escalations[i].id = session[s].escalations[i].id
            /\ session[s].escalations[i].answered
                 => session'[s].escalations[i].answered]_vars

\* an escalation created after the clock had advanced is answered, in the
\* store and in memory
C8_Witness ==
  /\ Len(dbEscalations) > 0
  /\ dbEscalations[1].status = "answered"
  /\ dbEscalations[1].created_at > 0
  /\ Len(session["s1"].escalations) > 0
  /\ session["s1"].escalations[1].answered

\* C9 as stated: once an escalation is answered, a further answer leaves its
\* in-memory record and its row as they are and announces no
\* escalation-answered for it.
C9_AnsweredOnce ==
  [][\A s \in SessionIds : \A i \in 1..Len(session[s].escalations) :
       LET e == session[s].escalations[i]
       IN e.answered =>
            /\ session'[s].escalations[i] = e
            /\ \A j \in 1..Len(dbEscalations), k \in 1..Len(dbEscalations') :
                 SameRow(j, k) /\ dbEscalations[j].id = e.id
                   => dbEscalations'[k] = dbEscalations[j]
            /\ \A n \in 1..Len(emitted') :
                 ~(emitted'[n].type = "escalation-answered"
                     /\ emitted'[n].data = << e.id >>)]_vars

\* the caller is sent an error, nothing in memory or in the store changes,
\* and none of the three notifications goes out
Rejected ==
  /\ reply'.type = "error"
  /\ UNCHANGED << session, activeSessions, dbSessions, dbMessages,
                  dbEscalations, dbHumanMessages >>
  /\ \A n \in 1..Len(emitted') :
       emitted'[n].type \notin
         {"escalation-answered", "session-stopped", "human-message"}

\* C10 as stated: escalation-response, stop-session, human-message and
\* join-session naming a session that was never created, and
\* escalation-response naming a session out of the registry or an escalation
\* the session does not hold, are rejected.
C10_UnknownRejected ==
  [][\A sid \in SessionIds :
       /\ sid \notin created =>
            /\ StopSession(sid) => Rejected
            /\ JoinSession(sid) => Rejected
            /\ \A content \in Contents : HumanMessage(sid, content) => Rejected
       /\ \A eid \in EscIds, answer \in Answers :
            /\ EscalationResponse(sid, eid, answer)
            /\ ~(sid \in activeSessions
                   /\ HasEscalation(session[sid].escalations, eid))
            => Rejected]_vars


\* ---------------------------------------------------------------- C11
\* the stored row of an in-memory escalation, << >> when the store has none
RowOf(e) ==
  LET Same(r) == r.id = e.id IN SelectSeq(dbEscalations, Same)

IsAnswer(v) == v \notin { Null, Undefined }

\* C11: an escalation that is answered has an answer, in memory and in the
\* store, also after a submission whose answer is null or missing; and such a
\* submission never leaves the in-memory escalation and its row disagreeing
\* on answered or pending.
C11_AnsweredHasAnswer ==
  /\ \A s \in SessionIds : \A i \in 1..Len(session[s].escalations) :
       LET e == session[s].escalations[i]
       IN /\ e.answered => IsAnswer(e.answer)
          /\ \A k \in 1..Len(RowOf(e)) :
               e.answered <=> RowOf(e)[k].status = "answered"
  /\ \A k \in 1..Len(dbEscalations) :
       dbEscalations[k].status = "answered" => IsAnswer(dbEscalations[k].answer)


\* ---------------------------------------------------------------- C12
\* the one escalation session s waits on, when it waits on just one
WaitsOnOne(s, eid) ==
  /\ sched[s].pc = "poll"
  /\ session[s].active
  /\ PendingCount(session[s]) = 1
  /\ \E i \in 1..Len(session[s].escalations) :
       /\ session[s].escalations[i].id = eid
       /\ IsPending(session[s].escalations[i])

\* an answer operation the system offers answers escalation eid of session s
AnswerOperation(s, eid) ==
  \E answer \in Answers :
    \/ EscalationResponse(s, eid, answer)
    \/ McpAnswerEscalation(eid, answer)

\* C12: when the scheduler waits on a pending escalation and it is answered
\* through any answer operation the system offers, the scheduler sees no
\* pending escalation from then on: its next poll ends the wait, starts the
\* next turn and announces no escalation-timeout.
C12_AnswerEndsWait ==
  [][\A s \in SessionIds :
       /\ \A eid \in 1..nextEsc :
            WaitsOnOne(s, eid) /\ AnswerOperation(s, eid)
              => PendingCount(session'[s]) = 0
       /\ sched[s].pc = "poll" /\ sched'[s] # sched[s] /\ session[s].active
            /\ PendingCount(session[s]) = 0
              => /\ TurnStarts(s) \/ LoopEnds(s)
                 /\ ~HasNote(emitted', "escalation-timeout", s)]_vars


\* ---------------------------------------------------------------- C13
\* the marker lines of an output, and the escalations a step appends
MarkerLines(text) ==
  LET IsNeed(l) == l.marker = "NEED_HUMAN_INPUT" IN SelectSeq(text, IsNeed)

NewEscalations(s) ==
  SubSeq(session'[s].escalations, Len(session[s].escalations) + 1,
         Len(session'[s].escalations))

NewRows == SubSeq(dbEscalations', Len(dbEscalations) + 1, Len(dbEscalations'))

\* a phase-loop turn of session s announces its message in this step
TurnSpeaks(s) == HasNote(Added(s), "message", s)

EscalationNotes(s) ==
  LET IsEsc(n) == n.type = "escalation" /\ n.sessionId = s
  IN SelectSeq(emitted', IsEsc)

\* C13: escalations are created by a phase-loop turn from its final output
\* and by nothing else: an output with k marker lines creates k escalations,
\* each pending, without answer, raised by the turn's agent and asking the
\* text of its line, each appended in memory, persisted and announced once;
\* every other step creates none.
C13_MarkersBecomeEscalations ==
  [][\A s \in SessionIds :
       IF TurnSpeaks(s)
       THEN LET text == session'[s].messages[Len(session'[s].messages)].content
                lines == MarkerLines(text)
                new == NewEscalations(s)
            IN /\ Len(new) = Len(lines)
               /\ Len(NewRows) = Len(lines)
               /\ Len(EscalationNotes(s)) = Len(lines)
               /\ \A i \in 1..Len(new) :
                    /\ ~new[i].answered
                    /\ new[i].answer = Null
                    /\ new[i].agentId = CurrentAgent(sched[s])
                    /\ new[i].question = Trim(lines[i].rest)
                    /\ NewRows[i].id = new[i].id
                    /\ NewRows[i].status = "pending"
                    /\ NewRows[i].question = new[i].question
                    /\ EscalationNotes(s)[i].data = << new[i].id >>
       ELSE /\ Len(session'[s].escalations) = Len(session[s].escalations)
            /\ Len(EscRowsOf(s)') <= Len(EscRowsOf(s))
            /\ EscalationNotes(s) = << >>]_vars


\* ---------------------------------------------------------------- C14
\* a scheduler loop is driving session s
LoopRuns(s) == sched[s].pc \notin { "none", "done" }

\* C14: every session that is active in the registry and in the store,
\* whichever entry point created it, has a scheduler loop driving it towards
\* active = false.
C14_ActiveSessionIsDriven ==
  \A s \in SessionIds :
    s \in activeSessions /\ session[s].active /\ dbSessions[s].active
      => LoopRuns(s)


\* ---------------------------------------------------------------- C15
\* session s was created and its row is gone: it has been deleted
Deleted(s) == s \in created /\ ~dbSessions[s].exists

AnnouncedTotal(s) ==
  LET IsDone(n) == n.type = "deliberation-complete" /\ n.sessionId = s
  IN SelectSeq(emitted', IsDone)

\* C16: when a session's scheduler loop announces deliberation-complete, the
\* message total it has computed from the in-memory transcript is the number
\* of message rows the store holds for the session.
C16_TotalIsRowCount ==
  [][\A s \in SessionIds :
       LoopEnds(s) =>
         /\ Len(AnnouncedTotal(s)) = 1
         /\ AnnouncedTotal(s)[1].data[1] = Len(dbMessages'[s])]_vars


\* ---------------------------------------------------------------- C17
\* the turns of session s that have run to their end
TurnsDone(s) ==
  IF sched[s].pc = "model1" THEN Len(turnsRun[s]) - 1 ELSE Len(turnsRun[s])

\* C17: with no stop, no escalation, no search key and every model call
\* returning, the scheduler runs the 15 turns of the plan (3, 4, 4, 3, 1) and
\* no other: each turn makes one model call and appends one message under its
\* agent and phase, no search call and no second model call is made, no wait
\* begins, and the loop ends inactive with its last message labelled
\* Synthesis.
C17_UndisturbedRun ==
  \A s \in created :
    /\ sched[s].pc \in { "model1", "pause", "done" }
    /\ IsPrefix(turnsRun[s], Plan)
    /\ Len(session[s].messages) = TurnsDone(s)
    /\ Len(dbMessages[s]) >= TurnsDone(s)
    /\ \A i \in 1..Len(session[s].messages) :
         /\ session[s].messages[i].agentId = Plan[i][2]
         /\ session[s].messages[i].phase = PhaseName(Plan[i][1])
    /\ sched[s].pc = "done" =>
         /\ turnsRun[s] = Plan
         /\ Len(Plan) = 15
         /\ Len(session[s].messages) = 15
         /\ ~session[s].active
         /\ ~dbSessions[s].active
         /\ IsSynthesis(session[s].messages[15])
    /\ sched[s].pc # "done" => session[s].active

\* the run has ended and the scout's message holds SEARCH lines
C17_Witness ==
  /\ sched["s1"].pc = "done"
  /\ Len(session["s1"].messages) = 15
  /\ \E i \in 1..15 :
       /\ session["s1"].messages[i].agentId = "research-scout"
       /\ session["s1"].messages[i].content = Srch1


\* ---------------------------------------------------------------- C18
\* session s is in the registry and its first turn has not run to its end
FirstTurnRunning(s) ==
  /\ s \in activeSessions
  /\ Len(turnsRun[s]) = 1
  /\ sched[s].pc \in { "model1", "search", "model2" }

Completed(s) == sched[s].pc = "done" /\ dbSessions[s].exists

\* the phase loop of session s is where it was
LoopUntouched(s) == sched'[s] = sched[s] /\ turnsRun'[s] = turnsRun[s]

MessageNotes(s) ==
  LET IsMsg(n) == n.type = "message" /\ n.sessionId = s
  IN SelectSeq(emitted', IsMsg)

\* a human message to a completed session starts one follow-up by
\* process-architect, outside the phase loop
StartsOneFollowUp(s, content) ==
  /\ followUps'[s] = followUps[s] + 1
  /\ emitted' = << Note("human-message", s, "-", "-", content, << >>),
                   AgentStateNote(s, "process-architect", "thinking") >>
  /\ LoopUntouched(s)

C20_FollowUpIsContained ==
  [][\A s \in SessionIds :
       /\ \A ok \in BOOLEAN :
            FollowUpReturns(s, ok) =>
              /\ session'[s].phase = session[s].phase
              /\ session'[s].active = session[s].active
              /\ session'[s].escalations = session[s].escalations
              /\ dbSessions'[s] = dbSessions[s]
              /\ dbEscalations' = dbEscalations
              /\ LoopUntouched(s)
       /\ FollowUpReturns(s, FALSE) =>
            /\ dbMessages' = dbMessages
            /\ emitted' = << AgentStateNote(s, "process-architect", "idle"),
                             ErrorNote(s, "process-architect") >>
            /\ Count([i \in 1..Len(emitted') |-> IsError(emitted'[i])]) = 1]_vars

\* the model call of a follow-up has just thrown
C20_Witness ==
  /\ nHuman = 1
  /\ followUps["s1"] = 0
  /\ emitted = << AgentStateNote("s1", "process-architect", "idle"),
                  ErrorNote("s1", "process-architect") >>


\* ---------------------------------------------------------------- C21
\* a command addressed to session a is handled
CommandTo(a) ==
  \/ \E eid \in 1..nextEsc, answer \in Answers :
       EscalationResponse(a, eid, answer)
  \/ \E content \in Contents : HumanMessage(a, content)
  \/ StopSession(a)
  \/ DeleteSession(a)

\* the scheduler loop or a follow-up of session a moves
RunsOf(a) == sched'[a] # sched[a] \/ followUps'[a] < followUps[a]

\* nothing of session b changes: its in-memory state, its rows, its place in
\* the registry, its scheduler
Untouched(b) ==
  /\ session'[b] = session[b]
  /\ (b \in activeSessions') = (b \in activeSessions)
  /\ dbSessions'[b] = dbSessions[b]
  /\ dbMessages'[b] = dbMessages[b]
  /\ dbHumanMessages'[b] = dbHumanMessages[b]
  /\ EscRowsOf(b)' = EscRowsOf(b)
  /\ sched'[b] = sched[b]
  /\ turnsRun'[b] = turnsRun[b]
  /\ followUps'[b] = followUps[b]

\* C21: with two sessions in flight, what a turn of session a reads for its
\* context is session a's own transcript, human messages and answered
\* escalations, which only a's turns and commands addressed to a ever change;
\* and every command addressed to a leaves b's in-memory state, rows and
\* scheduler progress as they were.
C21_SessionsIsolated ==
  [][\A a \in SessionIds : \A b \in SessionIds \ {a} :
       /\ CommandTo(a) \/ RunsOf(a) => Untouched(b)
       /\ \A agentId \in AgentIds :
            LET ctx == buildContext(session[a], agentId, 0)
                answers == ctx.answeredEscalations \o ctx.otherAnswers
            IN \A i \in 1..Len(answers) : answers[i].sessionId = a]_vars

\* both sessions are in flight, one holds an answered escalation, and the
\* other has just been stopped
C21_Witness ==
  /\ created = SessionIds
  /\ \E a \in SessionIds : \E b \in SessionIds \ {a} :
       /\ HasNote(emitted, "session-stopped", a)
       /\ sched[a].pc = "model1"
       /\ \A agentId \in AgentIds :
            buildContext(session[a], agentId, 0).otherAnswers = << >>
       /\ sched[b].pc = "model1"
       /\ session[b].active
       /\ \E agentId \in AgentIds :
            buildContext(session[b], agentId, 0).answeredEscalations # << >>


\* ---------------------------------------------------------------- C22
\* the SEARCH lines of an output whose query is longer than two characters
Directives(text) ==
  LET Long(l) == l.marker = "SEARCH"
                   /\ StrLen(StripBrackets(Trim(l.rest))) > MinQueryLength
  IN SelectSeq(text, Long)

Smaller(a, b) == IF a < b THEN a ELSE b

LastOf(seq) == seq[Len(seq)]

\* C22: in a research-scout turn with the search key set whose first output
\* holds n search directives, the first min(n, 5) queries are executed, in
\* order and once each, a search that fails is recorded as a failure and the
\* turn goes on; search-started is announced before the first query and
\* search-complete after the last; a second model call follows, and the
\* message of the turn is the second response; when the second call throws
\* the turn persists no message.
C22_SearchProtocol ==
  [][\A s \in SessionIds :
       /\ \A text \in {Plain} \cup SearchOutputs :
            /\ sched[s].pc = "model1" /\ tavilyKey
                 /\ CurrentAgent(sched[s]) = "research-scout"
                 /\ Len(Directives(text)) > 0
                 /\ ModelAnswers(s, text)
                 => /\ sched'[s].pc = "search"
                    /\ Len(sched'[s].queries) =
                         Smaller(Len(Directives(text)), 5)
                    /\ \A i \in 1..Len(sched'[s].queries) :
                         sched'[s].queries[i] =
                           StripBrackets(Trim(Directives(text)[i].rest))
                    /\ sched'[s].results = << >>
                    /\ HasNote(emitted', "search-started", s)
                    /\ ~HasNote(emitted', "search-complete", s)
                    /\ dbMessages' = dbMessages
            /\ sched[s].pc = "model2" /\ ModelAnswers(s, text)
                 => /\ sched'[s].pc = "pause"
                    /\ LastOf(session'[s].messages).content = text
                    /\ Len(dbMessages'[s]) = Len(dbMessages[s]) + 1
                    /\ LastOf(dbMessages'[s]).content = text
       /\ sched[s].pc = "search" /\ sched'[s] # sched[s]
            => /\ Len(sched'[s].results) = Len(sched[s].results) + 1
               /\ sched'[s].queries = sched[s].queries
               /\ Len(sched'[s].results) <= Len(sched[s].queries)
               /\ sched'[s].pc =
                    IF Len(sched'[s].results) = Len(sched[s].queries)
                    THEN "model2" ELSE "search"
               /\ HasNote(emitted', "search-complete", s)
                    <=> sched'[s].pc = "model2"
               /\ ~HasNote(emitted', "error", s)
               /\ dbMessages' = dbMessages
       /\ sched[s].pc = "model2" /\ ModelFails(s)
            => /\ dbMessages' = dbMessages
               /\ session'[s].messages = session[s].messages]_vars

\* a scout turn has asked six queries, run five with a failure among them,
\* and persisted a second response that is not the first
C22_Witness ==
  /\ sched["s1"].pc = "pause"
  /\ sched["s1"].first = Srch6
  /\ sched["s1"].queries = << "alpha", "bravo", "delta", "gamma", "omega" >>
  /\ Len(sched["s1"].results) = 5
  /\ \E i \in 1..5 : sched["s1"].results[i] = "error"
  /\ LastOf(dbMessages["s1"]).content = Plain


\* ---------------------------------------------------------------- C23
HasDirective(text) == \E i \in 1..Len(text) : text[i].marker = "SEARCH"

\* C23: the message persisted for a research-scout turn that has searched
\* holds no SEARCH line, whatever the second model call returns.
C23_NoDirectivePersisted ==
  [][\A s \in SessionIds :
       sched[s].pc = "model2" /\ sched'[s].pc = "pause"
         => ~HasDirective(LastOf(dbMessages'[s]).content)]_vars


\* ---------------------------------------------------------------- C24
\* the scheduler of session s moves
Moves(s) == sched'[s] # sched[s]

\* the turn in progress is over: it has spoken, or failed and given way
TurnOver(s) == sched'[s].pc = "pause" \/ TurnStarts(s) \/ LoopEnds(s)

\* C24: searches are made only inside a turn of research-scout and only with
\* the search key set; a turn makes at most two model calls and at most five
\* search calls; a turn of another agent, and any turn without the key, is
\* over after its one model call, whatever SEARCH lines its output holds;
\* and the second response of a turn is never searched for.
C24_SearchIsBounded ==
  [][\A s \in SessionIds :
       /\ sched[s].pc \in { "search", "model2" }
            => /\ CurrentAgent(sched[s]) = "research-scout"
               /\ tavilyKey
               /\ Len(sched[s].queries) \in 1..MaxSearchQueries
               /\ Len(sched[s].results) <= Len(sched[s].queries)
       /\ sched[s].pc = "model1" /\ Moves(s)
            /\ (CurrentAgent(sched[s]) # "research-scout" \/ ~tavilyKey)
            => TurnOver(s)
       /\ sched[s].pc = "model1" /\ Moves(s) => TurnOver(s) \/ sched'[s].pc = "search"
       /\ sched[s].pc = "search" /\ Moves(s)
            => sched'[s].pc \in { "search", "model2" } /\ ~TurnStarts(s)
       /\ sched[s].pc = "model2" /\ Moves(s) => TurnOver(s)]_vars

\* a turn of another agent, or of the scout without the key, has ended after
\* one model call with six SEARCH lines in its message
C24_Witness ==
  /\ sched["s1"].pc = "pause"
  /\ sched["s1"].queries = << >>
  /\ LastOf(session["s1"].messages).content = Srch6
  /\ (CurrentAgent(sched["s1"]) = "research-scout") = ~tavilyKey


\* ---------------------------------------------------------------- C25
StoppedNotes(s) ==
  LET IsStop(n) == n.type = "session-stopped" /\ n.sessionId = s
  IN SelectSeq(emitted', IsStop)

\* C25: stop-session for a session in the registry sets active false in
\* memory and in the store, takes the session out of the registry and
\* announces session-stopped once; stop-session for a session that is no
\* longer there, a stopped one included, changes nothing and announces
\* nothing: stopping twice leaves what stopping once has left.
C25_StopIsIdempotent ==
  [][\A sid \in SessionIds :
       StopSession(sid) =>
         /\ sid \notin activeSessions'
         /\ ~dbSessions'[sid].active
         /\ Len(StoppedNotes(sid)) <= 1
         /\ Len(StoppedNotes(sid)) = 1 <=> sid \in activeSessions
         /\ sid \in activeSessions => ~session'[sid].active
         /\ sid \notin activeSessions
              => UNCHANGED << created, activeSessions, session, dbSessions,
                              dbMessages, dbEscalations, dbHumanMessages,
                              sched, followUps >>]_vars

\* the session has been stopped and stopped again while its first model call
\* is still awaited
C25_Witness ==
  /\ "s1" \in created
  /\ "s1" \notin activeSessions
  /\ dbSessions["s1"].exists
  /\ ~dbSessions["s1"].active
  /\ ~session["s1"].active
  /\ sched["s1"].pc = "model1"
  /\ Len(turnsRun["s1"]) = 1
  /\ nextEsc = 0
  /\ nHuman = 0
  /\ emitted = << >>

\* ------------------------------------------------------------------- C26
\* the session row an id names, if any
Stored(id) == id \in SessionIds /\ dbSessions[id].exists

\* a step that answers an export request, of either endpoint
Answered == reply' # reply /\ reply'.type = "http"

\* C26: both export endpoints answer an id that is not 6 to 32 alphanumeric
\* characters with 400 and without consulting the store, a well-formed id
\* of no stored session with 404 and an error field, every other id with
\* 200; no id is answered with 500.
C26_ExportStatus ==
  [][Answered =>
       LET id == reply'.request[1]
           wellFormed == /\ IsAlphanumeric(id)
                         /\ IdLength(id) \in MinIdLength..MaxIdLength
       IN /\ reply'.status # 500
          /\ ~wellFormed => reply'.status = 400 /\ ~reply'.consulted
          /\ wellFormed /\ ~Stored(id) =>
               reply'.status = 404 /\ "error" \in DOMAIN reply'.body
          /\ wellFormed /\ Stored(id) => reply'.status = 200]_vars

\* the export of a well-formed id is refused with 404 while a session is
\* stored under another id
C26_Witness ==
  /\ reply.type = "http"
  /\ Len(reply.request) = 3
  /\ reply.status = 404
  /\ dbSessions["s1"].exists


\* ------------------------------------------------------------------- C27
\* a step that answers an export request for a stored session
Exported ==
  /\ Answered
  /\ Len(reply'.request) = 3
  /\ Stored(reply'.request[1])

\* C27: an export of an existing session is never refused for its query: a
\* missing or unrecognised mode is served as full_transcript, a missing or
\* unrecognised format as txt with type text/plain, and a recognised mode
\* or format is used as given.
C27_QueryFallsBack ==
  [][Exported =>
       LET asked == reply'.request
           mode == IF asked[2] \in { "full_transcript", "end_result",
                                     "end_result_with_qa" }
                   THEN asked[2] ELSE "full_transcript"
           format == IF asked[3] \in { "txt", "json", "md" }
                     THEN asked[3] ELSE "txt"
       IN /\ reply'.status = 200
          /\ reply'.body.mode = mode
          /\ reply'.filename = << asked[1], mode, format >>
          /\ reply'.contentType =
               CASE format = "txt" -> "text/plain"
                 [] format = "md" -> "text/markdown"
                 [] format = "json" -> "application/json"]_vars

\* an export asked with a mode and a format the server does not know has
\* been served as the full transcript in plain text
C27_Witness ==
  /\ reply.type = "http"
  /\ Len(reply.request) = 3
  /\ reply.request[2] = "hacky_mode"
  /\ reply.request[3] = "docx"
  /\ reply.status = 200
  /\ reply.body.mode = "full_transcript"
  /\ reply.contentType = "text/plain"


\* ------------------------------------------------------------------- C28
\* the session has a persisted message of the Synthesis phase
HasSynthesisRow(id) ==
  \E i \in 1..Len(dbMessages[id]) : dbMessages[id][i].phase = "Synthesis"

\* the session has a persisted escalation
HasEscalationRow(id) ==
  \E i \in 1..Len(dbEscalations) : dbEscalations[i].session_id = id

\* C28: for an existing session the options report isComplete exactly when
\* the persisted active flag is false, full_transcript available exactly
\* when a message is persisted, end_result exactly when a Synthesis message
\* is, end_result_with_qa exactly when a Synthesis message or an escalation
\* is; and the JSON export has finishedAt null exactly when the session is
\* active.
C28_OptionsFollowStore ==
  [][Answered /\ Stored(reply'.request[1]) =>
       LET id == reply'.request[1]
           body == reply'.body
       IN /\ Len(reply'.request) = 1 =>
               /\ body.isComplete = ~dbSessions[id].active
               /\ body.full_transcript = (Len(dbMessages[id]) > 0)
               /\ body.end_result = HasSynthesisRow(id)
               /\ body.end_result_with_qa =
                    (HasSynthesisRow(id) \/ HasEscalationRow(id))
          /\ Len(reply'.request) = 3 /\ reply'.request[3] = "json" =>
               /\ (body.finishedAt = Null) = dbSessions[id].active
               /\ (body.finishedAt = Null) = session[id].active]_vars

\* the options of a session that was stopped before its synthesis, with a
\* question asked: complete, with the transcript and the end result with
\* questions on offer and the end result alone not
C28_Witness ==
  /\ reply.type = "http"
  /\ Len(reply.request) = 1
  /\ reply.status = 200
  /\ reply.body.isComplete
  /\ reply.body.full_transcript
  /\ ~reply.body.end_result
  /\ reply.body.end_result_with_qa

\* the options of a session that ran to its end
C28_WitnessSynthesis ==
  /\ reply.type = "http"
  /\ Len(reply.request) = 1
  /\ reply.status = 200
  /\ reply.body.isComplete
  /\ reply.body.end_result


\* ------------------------------------------------------------------- C29
InSynthesis(m) == m.phase = "Synthesis"

\* the list is the session's Synthesis messages, in their order
IsSynthesisOf(list, id) ==
  LET kept == SelectSeq(dbMessages[id], InSynthesis)
  IN /\ Len(list) = Len(kept)
     /\ \A i \in 1..Len(kept) :
          /\ list[i].agent = kept[i].agentId
          /\ list[i].content = kept[i].content

\* the list is all the session's messages, in the order they were created
IsTranscriptOf(list, id) ==
  /\ Len(list) = Len(dbMessages[id])
  /\ \A i \in 1..Len(list) :
       /\ list[i].agent = dbMessages[id][i].agentId
       /\ list[i].phase = dbMessages[id][i].phase
       /\ list[i].content = dbMessages[id][i].content

\* the body lists the session's questions and human messages
HasQuestionsAndMessages(body, id) ==
  /\ { "questions", "humanMessages" } \subseteq DOMAIN body
  /\ Len(body.questions) = Len(EscRowsOf(id))
  /\ \A i \in 1..Len(body.questions) :
       body.questions[i].question = EscRowsOf(id)[i].question
  /\ Len(body.humanMessages) = Len(dbHumanMessages[id])
  /\ \A i \in 1..Len(body.humanMessages) :
       body.humanMessages[i].content = dbHumanMessages[id][i].content

\* C29: the JSON export of an existing session has, in mode end_result, a
\* synthesis list of exactly the Synthesis messages and no transcript; in
\* mode end_result_with_qa that list with the questions and the human
\* messages and no transcript; in mode full_transcript the transcript of
\* all messages in creation order with the questions and human messages.
C29_JsonShape ==
  [][Exported /\ reply'.request[3] = "json" =>
       LET id == reply'.request[1]
           body == reply'.body
       IN /\ body.mode = "end_result" =>
               /\ "synthesis" \in DOMAIN body
               /\ "transcript" \notin DOMAIN body
               /\ IsSynthesisOf(body.synthesis, id)
          /\ body.mode = "end_result_with_qa" =>
               /\ "synthesis" \in DOMAIN body
               /\ "transcript" \notin DOMAIN body
               /\ IsSynthesisOf(body.synthesis, id)
               /\ HasQuestionsAndMessages(body, id)
          /\ body.mode = "full_transcript" =>
               /\ "transcript" \in DOMAIN body
               /\ IsTranscriptOf(body.transcript, id)
               /\ HasQuestionsAndMessages(body, id)]_vars

\* the end result with questions of a session that ran to its end after a
\* question: a synthesis shorter than the transcript, and the question
C29_Witness ==
  /\ reply.type = "http"
  /\ Len(reply.request) = 3
  /\ reply.status = 200
  /\ reply.request[3] = "json"
  /\ reply.body.mode = "end_result_with_qa"
  /\ Len(reply.body.synthesis) > 0
  /\ Len(reply.body.questions) > 0
  /\ Len(dbMessages[reply.request[1]]) > Len(reply.body.synthesis)


\* ------------------------------------------------------------------- C30
IsTimeout(n) == n.type = "escalation-timeout"

\* the wait of session s ends in this step with the session active and an
\* escalation still pending: it has reached the ceiling
CeilingReached(s) ==
  /\ sched[s].pc = "poll"
  /\ sched'[s].pc # "poll"
  /\ session[s].active
  /\ PendingCount(session[s]) > 0

\* C30: a wait that reaches the ceiling with an escalation pending announces
\* escalation-timeout once, starts the turn it held back and leaves the
\* escalation pending, in memory and in the store; while the escalation
\* stays unanswered every later turn of the session waits again, from zero,
\* behind a waiting-for-human notification, and starts only at the ceiling.
C30_TimeoutKeepsPending ==
  [][\A s \in SessionIds :
       /\ CeilingReached(s) =>
            /\ sched[s].waited + PollInterval = WaitCeiling
            /\ Len(SelectSeq(emitted', IsTimeout)) = 1
            /\ TurnStarts(s)
            /\ session'[s].escalations = session[s].escalations
            /\ dbEscalations' = dbEscalations
       /\ WaitBegins(s) =>
            /\ sched'[s].waited = 0
            /\ HasNote(emitted', "waiting-for-human", s)
       /\ TurnStarts(s) /\ session[s].active
                        /\ PendingCount(session[s]) > 0 =>
            /\ CeilingReached(s)
            /\ PendingCount(session'[s]) > 0]_vars

\* the third turn of a session starts from a timed-out wait, the question of
\* its first turn still pending: the second turn was held back to the
\* ceiling too
C30_Witness ==
  /\ sched["s1"].pc = "model1"
  /\ Len(turnsRun["s1"]) = 3
  /\ session["s1"].messages[1].content = Ask1
  /\ HasNote(emitted, "escalation-timeout", "s1")
  /\ session["s1"].active
  /\ PendingCount(session["s1"]) = 1
  /\ \E i \in 1..Len(dbEscalations) : dbEscalations[i].status = "pending"


\* ---------------------------------------------------------------- C31
\* the context built for the turn of session s that starts in this step
TurnContext(s) ==
  buildContext(session'[s], CurrentAgent(sched'[s]), sched'[s].phaseIdx)

\* how many entries of the list are the escalation with this id
Times(list, eid) == Cardinality({ j \in 1..Len(list) : list[j].id = eid })

\* C31: in the context built for a turn of agent a every answered escalation
\* of the session appears exactly once, among the agent's own answers when a
\* raised it and among the shared ones, under its raiser's name, otherwise;
\* a pending escalation appears in neither.
C31_AnswersInContext ==
  [][\A s \in SessionIds :
       TurnStarts(s) =>
         LET a == CurrentAgent(sched'[s])
             ctx == TurnContext(s)
             escs == session'[s].escalations
         IN \A i \in 1..Len(escs) :
              LET own == Times(ctx.answeredEscalations, escs[i].id)
                  shared == Times(ctx.otherAnswers, escs[i].id)
              IN /\ ~escs[i].answered => own = 0 /\ shared = 0
                 /\ escs[i].answered /\ escs[i].agentId = a =>
                      own = 1 /\ shared = 0
                 /\ escs[i].answered /\ escs[i].agentId # a =>
                      /\ own = 0 /\ shared = 1
                      /\ \A j \in 1..Len(ctx.otherAnswers) :
                           ctx.otherAnswers[j].id = escs[i].id =>
                             ctx.otherAnswers[j].agentId = escs[i].agentId]_vars

\* a turn of the agent that asked two questions starts with one of them
\* answered and the other still pending
C31_Witness ==
  \E i, j \in 1..Len(session["s1"].escalations) :
    /\ sched["s1"].pc = "model1"
    /\ Len(turnsRun["s1"]) > 1
    /\ session["s1"].escalations[i].agentId = CurrentAgent(sched["s1"])
    /\ session["s1"].escalations[i].answered
    /\ session["s1"].escalations[j].agentId = CurrentAgent(sched["s1"])
    /\ ~session["s1"].escalations[j].answered
    /\ session["s1"].active

\* a turn of another agent starts with an answered question in the session
C31_WitnessShared ==
  \E i \in 1..Len(session["s1"].escalations) :
    /\ sched["s1"].pc = "model1"
    /\ session["s1"].escalations[i].agentId # CurrentAgent(sched["s1"])
    /\ session["s1"].escalations[i].answered


\* ---------------------------------------------------------------- C32
\* the messages from the i-th on are messages of the turns from the j-th on,
\* in the order of the turns
RECURSIVE FromTurns(_, _, _, _)
FromTurns(msgs, i, turns, j) ==
  IF i > Len(msgs) THEN TRUE
  ELSE IF j > Len(turns) THEN FALSE
  ELSE IF /\ msgs[i].agentId = turns[j][2]
          /\ msgs[i].phase = PhaseName(turns[j][1])
       THEN FromTurns(msgs, i + 1, turns, j + 1)
       ELSE FromTurns(msgs, i, turns, j + 1)

\* the fields of session s a reader of the session must leave alone
Snapshot(sess) ==
  << sess.messages, sess.escalations, sess.humanMessages, sess.phase,
     sess.active >>

\* C32: the context built for a turn holds exactly the messages of the
\* session's earlier turns that produced one, in creation order, and every
\* human interjection appended to the active session before the turn
\* started; building it changes nothing in the session.
C32_ContextIsTranscript ==
  [][\A s \in SessionIds :
       /\ TurnStarts(s) =>
            LET ctx == TurnContext(s)
                earlier == SubSeq(turnsRun'[s], 1, Len(turnsRun'[s]) - 1)
            IN /\ ctx.priorMessages = session'[s].messages
               /\ FromTurns(ctx.priorMessages, 1, earlier, 1)
               /\ ctx.humanMessages = session'[s].humanMessages
               /\ s \in activeSessions' =>
                    ctx.humanMessages = dbHumanMessages'[s]
               /\ sched[s].pc = "poll" =>
                    Snapshot(session'[s]) = Snapshot(session[s])
       /\ session'[s].messages # session[s].messages =>
            /\ sched[s].pc \in { "model1", "model2" }
            /\ Len(session'[s].messages) = Len(session[s].messages) + 1
            /\ IsPrefix(session[s].messages, session'[s].messages)
            /\ LastOf(session'[s].messages).agentId = CurrentAgent(sched[s])]_vars

\* a turn of a session still in the registry starts with the messages of
\* earlier turns and a human interjection to put in its context
C32_Witness ==
  /\ sched["s1"].pc = "model1"
  /\ Len(session["s1"].messages) >= 2
  /\ Len(session["s1"].humanMessages) = 1
  /\ "s1" \in activeSessions


\* ---------------------------------------------------------------- C33
\* C33: the context carries the final-synthesis instructions exactly when it
\* is built for process-architect in the last phase of the plan: for every
\* other agent and phase, process-architect's earlier phases included, they
\* are absent, in the contexts the turns are given and in any other.
C33_FinalSynthesisOnly ==
  /\ [](\A s \in SessionIds, a \in AgentIds, p \in 0..(Len(PHASES) - 1) :
          buildContext(session[s], a, p).finalSynthesis
            <=> (p = Len(PHASES) - 1 /\ a = "process-architect"))
  /\ [][\A s \in SessionIds :
          TurnStarts(s) =>
            (TurnContext(s).finalSynthesis
               <=> /\ Len(turnsRun'[s]) = Len(Plan)
                   /\ LastOf(turnsRun'[s]) =
                        << Len(PHASES) - 1, "process-architect" >>)]_vars

\* the last turn of the plan has started, with the instructions in its
\* context, after a turn of process-architect in the first phase
C33_Witness ==
  /\ sched["s1"].pc = "model1"
  /\ turnsRun["s1"] = Plan
  /\ turnsRun["s1"][1] = << 0, "process-architect" >>
  /\ buildContext(session["s1"], CurrentAgent(sched["s1"]),
                  sched["s1"].phaseIdx).finalSynthesis


\* ---------------------------------------------------------------- C34
IsComplete(n) == n.type = "deliberation-complete"

\* session-stopped for session s has just been announced
JustStopped(s) == HasNote(emitted, "session-stopped", s)

\* C34: a scheduler loop announces deliberation-complete exactly once, in the
\* step in which it ends and as the last thing it announces, after all five
\* phases or after breaking off; the session is then inactive in memory and
\* in the store and out of the registry; a loop that has ended does nothing
\* more; and the loop of a session that is stopped goes on to announce
\* deliberation-complete after session-stopped, never before it.
C34_CompleteOnceAtEnd ==
  /\ [][\A s \in SessionIds :
          /\ LoopEnds(s) <=> HasNote(emitted', "deliberation-complete", s)
          /\ LoopEnds(s) =>
               /\ Len(SelectSeq(emitted', IsComplete)) = 1
               /\ LastOf(emitted').type = "deliberation-complete"
               /\ ~session'[s].active
               /\ ~dbSessions'[s].active
               /\ s \notin activeSessions'
          /\ sched[s].pc = "done" =>
               /\ sched'[s] = sched[s]
               /\ turnLog'[s] = turnLog[s]
               /\ ~HasNote(emitted', "session-stopped", s)]_vars
  /\ \A s \in SessionIds :
       JustStopped(s) ~> HasNote(emitted, "deliberation-complete", s)

\* a loop that broke off in its first phase after a stop has just announced
\* deliberation-complete
C34_Witness ==
  /\ HasNote(emitted, "deliberation-complete", "s1")
  /\ sched["s1"].pc = "done"
  /\ Len(phaseLog["s1"]) = 1
  /\ ~session["s1"].active
  /\ ~dbSessions["s1"].active


\* ---------------------------------------------------------------- C35
\* the agents of session s whose in-memory state is not idle
Busy(s) == { a \in AgentIds : session[s].agentStates[a] # "idle" }

\* a turn of session s is between its start and its last state change
InTurn(s) == sched[s].pc \in { "model1", "search", "model2" }

\* C35: at most one agent of a session is in a state other than idle, and it
\* is the agent whose turn is in progress; all agents are idle in the session
\* createSession returns, whenever no turn is in progress (during an
\* escalation wait, between turns) and after the loop has ended; and a turn
\* that ends, by its message or by a failure, announces its agent idle.
C35_OneBusyAgent ==
  /\ [](\A s \in created :
          /\ Cardinality(Busy(s)) <= 1
          /\ InTurn(s) => Busy(s) \subseteq { CurrentAgent(sched[s]) }
          /\ ~InTurn(s) => Busy(s) = {}
          /\ \A a \in AgentIds :
               createSession(s).sess.agentStates[a] = "idle")
  /\ [][\A s \in SessionIds :
          InTurn(s) /\ sched'[s] # sched[s] /\ sched[s].pc # "search"
                    /\ sched'[s].pc \notin { "search", "model2" } =>
            /\ session'[s].agentStates[CurrentAgent(sched[s])] = "idle"
                 \/ (InTurn(s)' /\ CurrentAgent(sched'[s]) = CurrentAgent(sched[s]))
            /\ \E i \in 1..Len(emitted') :
                 emitted'[i] =
                   AgentStateNote(s, CurrentAgent(sched[s]), "idle")]_vars

\* after a failed turn the next agent is thinking and the agent of the failed
\* turn is idle again
C35_Witness ==
  /\ nFail = 1
  /\ sched["s1"].pc = "model1"
  /\ session["s1"].active
  /\ Len(turnsRun["s1"]) = 2
  /\ Busy("s1") = { CurrentAgent(sched["s1"]) }
  /\ session["s1"].agentStates[turnsRun["s1"][1][2]] = "idle"


\* ---------------------------------------------------------------- C36
\* C36: escalation-timeout is announced only by a wait that ends with an
\* escalation of the session still pending and the session still active; it
\* is not announced when the last pending escalation was answered, or the
\* session stopped, during the last poll interval before the ceiling.
C36_TimeoutOnlyWhenPending ==
  [][\A s \in SessionIds :
       HasNote(emitted', "escalation-timeout", s) =>
         /\ sched[s].pc = "poll"
         /\ PendingCount(session[s]) > 0
         /\ session[s].active]_vars


\* ---------------------------------------------------------------- C37
\* the scheduler loop of session s takes a step
LoopSteps(s) == sched'[s] # sched[s]

\* C37: once a session is deleted its scheduler loop starts no further turn,
\* makes no further model call and announces nothing more that carries the
\* session's id.
C37_DeleteEndsLoop ==
  [][\A s \in SessionIds :
       Deleted(s) /\ LoopSteps(s) =>
         /\ ~TurnStarts(s)
         /\ sched'[s].pc \notin { "model1", "model2" }
         /\ \A i \in 1..Len(emitted') : emitted'[i].sessionId # s]_vars


\* ---------------------------------------------------------------- C38
\* session s was stopped and its loop has not ended yet
StoppedRunning(s) ==
  /\ s \in created
  /\ ~session[s].active
  /\ sched[s].pc \notin { "none", "done" }

\* how far the loop of a stopped session is from its end
StepsLeft(pc) ==
  CASE pc = "poll" -> 5
    [] pc = "model1" -> 4
    [] pc = "search" -> 3
    [] pc = "model2" -> 2
    [] pc = "pause" -> 1
    [] OTHER -> 0

IsMessage(n) == n.type = "message"

\* C38: after a stop has taken effect the phase loop of the session appends
\* at most one more message and announces at most one more: whatever state
\* the stop finds the loop in, each step of the loop brings it nearer its
\* end, a message is appended and announced only by the step that ends the
\* turn in flight, one at most, and no phase-change is announced.
C38_AtMostOneAfterStop ==
  [][\A s \in SessionIds :
       StoppedRunning(s) /\ LoopSteps(s) =>
         /\ StepsLeft(sched'[s].pc) < StepsLeft(sched[s].pc)
              \/ (sched[s].pc = "search" /\ sched'[s].pc = "search")
         /\ Len(session'[s].messages) <= Len(session[s].messages) + 1
         /\ Len(SelectSeq(emitted', IsMessage)) <= 1
         /\ (\/ session'[s].messages # session[s].messages
             \/ HasNote(emitted', "message", s)) =>
              /\ sched[s].pc \in { "model1", "model2" }
              /\ sched'[s].pc \in { "pause", "done" }
         /\ ~HasNote(emitted', "phase-change", s)
         /\ phaseLog'[s] = phaseLog[s]]_vars

\* a session stopped while its loop waited on a question: the turn held
\* back has run and has appended its message after the stop
C38_Witness ==
  /\ "s1" \in created
  /\ ~session["s1"].active
  /\ sched["s1"].pc = "pause"
  /\ PendingCount(session["s1"]) > 0
  /\ Len(turnsRun["s1"]) = 2
  /\ Len(session["s1"].messages) = 2
  /\ HasNote(emitted, "message", "s1")


\* ---------------------------------------------------------------- C39
\* C39: a session held in the registry is active in memory and in its row,
\* and its in-memory phase is the persisted one and never goes down; a
\* session that was stopped, or whose loop has ended, is out of the registry
\* and its persisted active flag is false.
C39_RegistryIsActive ==
  /\ [](\A s \in SessionIds :
          /\ s \in activeSessions =>
               /\ s \in created
               /\ session[s].active
               /\ dbSessions[s].exists
               /\ dbSessions[s].active
               /\ session[s].phase = dbSessions[s].phase
          /\ s \in created /\ s \notin activeSessions => ~dbSessions[s].active
          /\ s \in created /\ ~session[s].active => s \notin activeSessions
          /\ sched[s].pc = "done" => s \notin activeSessions)
  /\ [][\A s \in SessionIds :
          /\ s \in activeSessions /\ s \in activeSessions' =>
               session'[s].phase >= session[s].phase
          /\ HasNote(emitted', "session-stopped", s) =>
               /\ s \notin activeSessions'
               /\ ~dbSessions'[s].active
               /\ ~session'[s].active
          /\ s \notin activeSessions /\ s \in created =>
               s \notin activeSessions']_vars

\* a session in its third phase, in the registry, active in memory and in
\* its row
C39_Witness ==
  /\ "s1" \in activeSessions
  /\ session["s1"].phase = 2
  /\ dbSessions["s1"].phase = 2
  /\ session["s1"].active
  /\ dbSessions["s1"].active

\* a session stopped in its second phase: out of the registry, its row
\* inactive, its loop not yet at its end
C39_WitnessStopped ==
  /\ "s1" \in created
  /\ "s1" \notin activeSessions
  /\ dbSessions["s1"].exists
  /\ ~dbSessions["s1"].active
  /\ session["s1"].phase = 1
  /\ sched["s1"].pc = "model1"


\* ---------------------------------------------------------------- C40
\* the notification each command of the stdio MCP client is confirmed by
Confirmation(type) ==
  CASE type = "new-session" -> "session-created"
    [] type = "stop-session" -> "session-stopped"
    [] type = "delete-session" -> "session-deleted"
    [] OTHER -> "escalation-answered"

\* C40: with several sessions or clients active at once, wsCmd resolves only
\* with a notification caused by its own command: a tool that reports
\* success has heard the notification that confirms its command, and
\* warroom_stop_session, warroom_delete_session and warroom_answer_escalation
\* have heard it for their own session id, never a broadcast that belongs to
\* another session.
C40_OwnNotificationOnly ==
  (wsClient.state = "resolved" /\ wsClient.result.success) =>
    /\ wsClient.heard.type = Confirmation(wsClient.cmd.type)
    /\ wsClient.cmd.type # "new-session" =>
         wsClient.heard.sessionId = wsClient.cmd.sessionId

====
